---- MODULE Spec2Model ----
(***************************************************************************)
(* Model of the virtuallaunch-pro-api worker (src/workers/src/index.js):   *)
(* the receipt-gated ingestion protocol over the R2 object store.          *)
(*                                                                         *)
(* One request is one slot of `req`.  Every `await` on the object store or *)
(* on the projection sink is one step of the request, so that requests     *)
(* the platform handles concurrently interleave exactly at those points.   *)
(***************************************************************************)
EXTENDS Integers, Sequences, FiniteSets, TLC

VARIABLES
  store,      \* R2_VIRTUAL_LAUNCH: key -> stored object (DOMAIN = keys present)
  req,        \* per request slot: position, inputs, locals, response, op log
  clock,      \* wall clock in whole seconds (Date.now() / new Date())
  faults,     \* number of injected faults (failed puts / failed sink calls)
  clickup,    \* projection sink: number of tasks created so far
  env,        \* the worker's bindings and secrets
  scenario    \* what the senders of this specification may submit

vars == <<store, req, clock, faults, clickup, env, scenario>>

(***************************************************************************)
(* Bounds of the model.                                                    *)
(***************************************************************************)
NumReq == 2          \* request slots of the concurrent specifications
NumSeqReq == 3       \* request slots of the sequential specification
NumDeliveries == 3   \* request slots of the redelivery specification
MaxFaults == 1       \* injected faults per behaviour
MaxHeaderLen == 3    \* items in a stripe-signature header (SpecSig)
Now0 == 1000         \* clock at start (any value > tolerance + 1)

(***************************************************************************)
(* Program constants.                                                      *)
(***************************************************************************)
toleranceSeconds == 300
SessionTtl == 604800
NULL == "null"

(***************************************************************************)
(* JavaScript helpers.                                                     *)
(***************************************************************************)
\* JS truthiness of a string-or-null field: null, undefined and "" are falsy.
Truthy(v) == v # NULL /\ v # ""

\* a || b
Or(a, b) == IF Truthy(a) THEN a ELSE b

Abs(n) == IF n < 0 THEN -n ELSE n

\* An optional value: <<>> (absent / null) or <<v>>.
None == <<>>
Some(v) == <<v>>

(***************************************************************************)
(* Object store.                                                           *)
(***************************************************************************)
Has(s, k) == k \in DOMAIN s

Put(s, k, v) == [x \in (DOMAIN s) \cup {k} |-> IF x = k THEN v ELSE s[x]]

Get(s, k) == IF Has(s, k) THEN Some(s[k]) ELSE None

EmptyStore == [x \in {} |-> NULL]

ReceiptKey(source, eventId) == <<"receipts/" \o source, eventId>>
AccountKey(accountId) == <<"accounts", accountId>>
IndexKey(paymentIntentId) == <<"stripe/payment-intents", paymentIntentId>>
EmailIndexKey(email) == <<"auth/email-index", email>>

IsReceiptKey(k) == k[1] \in {"receipts/stripe", "receipts/forms"}
IsCanonicalKey(k) ==
  k[1] \in {"accounts", "stripe/payment-intents", "auth/email-index",
            "support", "va/pages", "va/directory"}

(***************************************************************************)
(* Stripe events.  A raw body is named by a string; JSON.parse of the body *)
(* is the table ParseBody.  `o` fields follow evt.data.object.             *)
(***************************************************************************)
Evt(id, type, pi, status, receiptUrl, sessionId, email, name) ==
  [id |-> id, type |-> type, payment_intent |-> pi, status |-> status,
   receipt_url |-> receiptUrl, session |-> sessionId,
   payment_link |-> NULL, email |-> email, name |-> name, customer |-> NULL]

NoEvt == Evt(NULL, NULL, NULL, NULL, NULL, NULL, NULL, NULL)

\* An event that also carries o.payment_link and o.customer.
EvtWith(evt, paymentLink, customerId) ==
  [evt EXCEPT !.payment_link = paymentLink, !.customer = customerId]

\* JSON.parse(rawBody): [ok, evt].  "b_garbage" is not JSON.
ParseBody(body) ==
  CASE body = "b_cs1" ->
         [ok |-> TRUE, evt |-> Evt("evt_cs1", "checkout.session.completed",
              "pi_1", "complete", NULL, "cs_1", "a@x.io", "Ann")]
    [] body = "b_cs0" ->
         [ok |-> TRUE, evt |-> Evt("evt_cs0", "checkout.session.completed",
              NULL, "complete", NULL, "cs_0", "a@x.io", "Ann")]
    [] body = "b_pi1" ->
         [ok |-> TRUE, evt |-> Evt("evt_pi1", "payment_intent.succeeded",
              "pi_1", "succeeded", NULL, NULL, NULL, NULL)]
    [] body = "b_ch1" ->
         [ok |-> TRUE, evt |-> Evt("evt_ch1", "charge.succeeded",
              "pi_1", "succeeded", "https://r/1", NULL, NULL, NULL)]
    [] body = "b_cs2" ->
         [ok |-> TRUE, evt |-> EvtWith(
              Evt("evt_cs2", "checkout.session.completed",
                  "pi_1", "paid", NULL, "cs_2", "b@x.io", "Bob"),
              "plink_2", "cus_2")]
    [] body = "b_cs3" ->
         [ok |-> TRUE, evt |-> Evt("evt_cs3", "checkout.session.completed",
              "pi_1", NULL, NULL, NULL, NULL, NULL)]
    [] body = "b_pi2" ->
         [ok |-> TRUE, evt |-> Evt("evt_pi2", "payment_intent.succeeded",
              "pi_1", NULL, NULL, NULL, NULL, NULL)]
    [] body = "b_ch2" ->
         [ok |-> TRUE, evt |-> Evt("evt_ch2", "charge.succeeded",
              "pi_1", NULL, NULL, NULL, NULL, NULL)]
    [] body = "b_inv" ->
         [ok |-> TRUE, evt |-> Evt("evt_inv", "invoice.paid",
              NULL, NULL, NULL, NULL, NULL, NULL)]
    [] body = "b_noid" ->
         [ok |-> TRUE, evt |-> Evt(NULL, "charge.succeeded",
              "pi_1", NULL, NULL, NULL, NULL, NULL)]
    [] body = "b_notype" ->
         [ok |-> TRUE, evt |-> Evt("evt_nt", NULL,
              NULL, NULL, NULL, NULL, NULL, NULL)]
    [] OTHER -> [ok |-> FALSE, evt |-> NoEvt]

AllBodies == {"b_cs1", "b_cs0", "b_cs2", "b_cs3", "b_pi1", "b_pi2", "b_ch1",
              "b_ch2", "b_inv", "b_noid", "b_notype", "b_garbage"}

(***************************************************************************)
(* Stripe signature header: "t=<unix>,v1=<hex>[,v1=<hex>...]".             *)
(* A header is the sequence of its comma-separated items, each already     *)
(* split at "=" into a key and a value.  HMAC-SHA256 is modelled           *)
(* symbolically: the MAC of (secret, "t.body") is the record of its        *)
(* arguments, so two MACs are equal exactly when all arguments are.        *)
(***************************************************************************)
NumVal(n) == [kind |-> "num", n |-> n, secret |-> "", body |-> ""]
StrVal == [kind |-> "str", n |-> 0, secret |-> "", body |-> ""]
EmptyVal == [kind |-> "empty", n |-> 0, secret |-> "", body |-> ""]
HmacHex(secret, t, body) ==
  [kind |-> "mac", n |-> t, secret |-> secret, body |-> body]

Item(k, v) == [k |-> k, v |-> v]

\* Number(val): a decimal string converts to its number, anything else to
\* NaN.  NaN and null are both represented as "not a number" (both falsy).
NotANumber == [isNum |-> FALSE, n |-> 0]
Number(val) ==
  IF val.kind = "num" THEN [isNum |-> TRUE, n |-> val.n] ELSE NotANumber

RECURSIVE parseItems(_, _, _)
parseItems(header, i, out) ==
  IF i > Len(header) THEN out
  ELSE LET item == header[i] IN
    IF item.k = "" \/ item.v.kind = "empty"
    THEN parseItems(header, i + 1, out)
    ELSE parseItems(header, i + 1,
           [timestamp |-> IF item.k = "t" THEN Number(item.v)
                          ELSE out.timestamp,
            v1 |-> IF item.k = "v1" THEN Append(out.v1, item.v)
                   ELSE out.v1])

parseStripeSignatureHeader(header) ==
  parseItems(header, 1, [timestamp |-> NotANumber, v1 |-> <<>>])

\* !parts.timestamp : null, NaN and 0 are falsy.
TimestampFalsy(ts) == ~ts.isNum \/ ts.n = 0

\* Variant: only the first v1 candidate is compared.
verifyFirstCandidate(rawBody, secret, signatureHeader, tolerance, nowSeconds) ==
  LET parts == parseStripeSignatureHeader(signatureHeader)
      age == Abs(nowSeconds - parts.timestamp.n)
      expected == HmacHex(secret, parts.timestamp.n, rawBody)
  IN  IF TimestampFalsy(parts.timestamp)
        THEN [ok |-> FALSE, reason |-> "Missing timestamp"]
      ELSE IF Len(parts.v1) = 0
        THEN [ok |-> FALSE, reason |-> "Missing v1 signature"]
      ELSE IF age > tolerance
        THEN [ok |-> FALSE, reason |-> "Timestamp outside tolerance"]
      ELSE IF parts.v1[1] = expected
        THEN [ok |-> TRUE, reason |-> ""]
      ELSE [ok |-> FALSE, reason |-> "Signature mismatch"]

\* Variant: an age equal to the tolerance is already too old.
verifyStrictTolerance(rawBody, secret, signatureHeader, tolerance, nowSeconds) ==
  LET parts == parseStripeSignatureHeader(signatureHeader)
      age == Abs(nowSeconds - parts.timestamp.n)
      expected == HmacHex(secret, parts.timestamp.n, rawBody)
  IN  IF TimestampFalsy(parts.timestamp)
        THEN [ok |-> FALSE, reason |-> "Missing timestamp"]
      ELSE IF Len(parts.v1) = 0
        THEN [ok |-> FALSE, reason |-> "Missing v1 signature"]
      ELSE IF age >= tolerance
        THEN [ok |-> FALSE, reason |-> "Timestamp outside tolerance"]
      ELSE IF \E i \in 1..Len(parts.v1) : parts.v1[i] = expected
        THEN [ok |-> TRUE, reason |-> ""]
      ELSE [ok |-> FALSE, reason |-> "Signature mismatch"]

verifyStripeSignature(rawBody, secret, signatureHeader, tolerance, nowSeconds) ==
  LET parts == parseStripeSignatureHeader(signatureHeader)
      age == Abs(nowSeconds - parts.timestamp.n)
      expected == HmacHex(secret, parts.timestamp.n, rawBody)
  IN  IF TimestampFalsy(parts.timestamp)
        THEN [ok |-> FALSE, reason |-> "Missing timestamp"]
      ELSE IF Len(parts.v1) = 0
        THEN [ok |-> FALSE, reason |-> "Missing v1 signature"]
      ELSE IF age > tolerance
        THEN [ok |-> FALSE, reason |-> "Timestamp outside tolerance"]
      ELSE IF \E i \in 1..Len(parts.v1) : parts.v1[i] = expected
        THEN [ok |-> TRUE, reason |-> ""]
      ELSE [ok |-> FALSE, reason |-> "Signature mismatch"]

(***************************************************************************)
(* Senders' signature headers.  A scenario names the kinds of header its   *)
(* senders produce; "any" is every header of at most MaxHeaderLen items    *)
(* over the item alphabet below (timestamps at the tolerance boundary,     *)
(* MACs under the right and a wrong secret, over this and another body).   *)
(***************************************************************************)
TOffsets == {-301, -300, 0, 300, 301}

HeaderItems(body, now) ==
  {Item("t", NumVal(now + d)) : d \in TOffsets}
    \cup {Item("t", NumVal(0)), Item("t", StrVal), Item("t", EmptyVal)}
    \cup {Item("v1", HmacHex("whsec", now + d, body)) : d \in TOffsets}
    \cup {Item("v1", HmacHex("whsec_other", now, body)),
          Item("v1", HmacHex("whsec", now, "b_other")),
          Item("v1", EmptyVal),
          Item("v0", HmacHex("whsec", now, body)),
          Item("", NumVal(now))}

SeqsUpTo(S, n) == UNION {[1..m -> S] : m \in 0..n}

SignatureOfKind(kind, body, now) ==
  CASE kind = "valid" ->
         {<<Item("t", NumVal(now)), Item("v1", HmacHex("whsec", now, body))>>}
    [] kind = "forged" ->
         {<<Item("t", NumVal(now)),
            Item("v1", HmacHex("whsec_other", now, body))>>}
    [] kind = "none" -> {<<>>}
    [] kind = "any" -> SeqsUpTo(HeaderItems(body, now), MaxHeaderLen)
    [] OTHER -> {}

Signatures(kinds, body, now) ==
  UNION {SignatureOfKind(k, body, now) : k \in kinds}

(***************************************************************************)
(* Requests.                                                               *)
(***************************************************************************)
Max(a, b) == IF a > b THEN a ELSE b
Req == 1..Max(NumReq, Max(NumSeqReq, NumDeliveries))

NoResp ==
  [status |-> 0, ok |-> FALSE, deduped |-> FALSE, error |-> "",
   reason |-> "", note |-> "", accountId |-> "", supportId |-> "",
   slug |-> "", projection |-> "none", threw |-> FALSE,
   authenticated |-> FALSE, location |-> "", setCookie |-> <<>>,
   method |-> "", path |-> "", data |-> <<>>]

\* json({error, reason}, status)
ErrorResp(status, error, reason) ==
  [NoResp EXCEPT !.status = status, !.error = error, !.reason = reason]

\* An exception that leaves fetch(): the platform answers 500.
ThrownResp == [NoResp EXCEPT !.status = 500, !.threw = TRUE]

OkResp == [NoResp EXCEPT !.status = 200, !.ok = TRUE]

IdleReq ==
  [pc |-> "idle", route |-> "", body |-> "", sig |-> <<>>, evt |-> NoEvt,
   now |-> 0, accountId |-> "", account |-> None, next |-> None,
   projected |-> None, projError |-> "",
   cookie |-> [parts |-> 0], ctype |-> "", input |-> <<>>,
   session |-> [authenticated |-> FALSE], payload |-> None,
   eventId |-> "", supportId |-> "", slug |-> "",
   email |-> "", token |-> "", tokenObj |-> None,
   method |-> "", path |-> "",
   receivedAt |-> 0, after |-> {}, resp |-> NoResp, ops |-> <<>>]

\* Log entries: what a request did, in order.
Op(op, key) == [op |-> op, key |-> key]
NoKey == <<"", "">>

\* The outcomes an object-store put or a sink call can have: TRUE succeeds.
Outcomes == IF faults < scenario.maxFaults THEN {TRUE, FALSE} ELSE {TRUE}

\* A request may take a step: under a sequential scenario only while no
\* other request is in flight.
MayStep(r) ==
  scenario.sequential =>
    \A q \in Req \ {r} : req[q].pc \in {"idle", "done"}

\* Slots start in order (slot r + 1 after slot r): which slot carries a
\* request is immaterial.
MayStart(r) ==
  /\ req[r].pc = "idle"
  /\ r <= scenario.slots
  /\ r > 1 => req[r - 1].pc # "idle"
  /\ MayStep(r)

Respond(rq, resp) == [rq EXCEPT !.pc = "done", !.resp = resp]

\* A request as it arrives: the time it is received and the requests that
\* were already answered by then (history, read by no handler).
Arrive(r, route) ==
  [req[r] EXCEPT !.route = route, !.receivedAt = clock,
                 !.after = {q \in Req : req[q].pc = "done"}]

Log(rq, op, key) == [rq EXCEPT !.ops = Append(@, Op(op, key))]

(***************************************************************************)
(* Canonical account objects.                                              *)
(***************************************************************************)
\* clickup: null is the record with no field set.
NoClickup == [taskId |-> NULL, error |-> NULL, updatedAt |-> 0]

\* nextAccount of handleCheckoutSessionCompleted: `account` is the optional
\* stored account, `evt` the event, `now` the time read before the get.
CheckoutNextAccount(account, evt, now) ==
  [accountId |-> evt.payment_intent,
   createdAt |-> IF account # None THEN account[1].createdAt ELSE now,
   fullName |-> Or(evt.name,
                   IF account # None THEN account[1].fullName ELSE NULL),
   primaryEmail |-> Or(evt.email,
                   IF account # None THEN account[1].primaryEmail ELSE NULL),
   stripe |->
     [customerId |-> Or(evt.customer,
          IF account # None THEN account[1].stripe.customerId ELSE NULL),
      eventId |-> evt.id,
      paymentIntentId |-> evt.payment_intent,
      paymentLink |-> Or(evt.payment_link,
          IF account # None THEN account[1].stripe.paymentLink ELSE NULL),
      paymentStatus |-> Or(evt.status,
          IF account # None THEN account[1].stripe.paymentStatus ELSE NULL),
      receiptUrl |->
          IF account # None THEN Or(account[1].stripe.receiptUrl, NULL)
          ELSE NULL,
      sessionId |-> Or(evt.session,
          IF account # None THEN account[1].stripe.sessionId ELSE NULL)],
   subscription |->
     [active |-> TRUE,
      activatedAt |->
          IF account # None /\ account[1].subscription.activatedAt # 0
          THEN account[1].subscription.activatedAt ELSE now],
   clickup |-> IF account # None THEN account[1].clickup ELSE NoClickup]

\* nextAccount of handlePaymentIntentSucceeded (o.id is the payment intent).
PaymentIntentNextAccount(account, evt) ==
  [account EXCEPT
     !.stripe.eventId = evt.id,
     !.stripe.paymentIntentId = Or(evt.payment_intent, Or(@, NULL)),
     !.stripe.paymentStatus = Or(evt.status, Or(@, NULL))]

\* Variant: the event's receipt URL is stored even when it has none.
ChargeNextAccountOverwrite(account, evt) ==
  [account EXCEPT
     !.stripe.eventId = evt.id,
     !.stripe.paymentIntentId = Or(evt.payment_intent, Or(@, NULL)),
     !.stripe.paymentStatus = Or(evt.status, Or(@, NULL)),
     !.stripe.receiptUrl = evt.receipt_url]

\* nextAccount of handleChargeSucceeded.
ChargeNextAccount(account, evt) ==
  [account EXCEPT
     !.stripe.eventId = evt.id,
     !.stripe.paymentIntentId = Or(evt.payment_intent, Or(@, NULL)),
     !.stripe.paymentStatus = Or(evt.status, Or(@, NULL)),
     !.stripe.receiptUrl = Or(evt.receipt_url, Or(@, NULL))]

\* Variant: the index entry names the event instead of the account.
IndexEntryOfEvent(accountId, now, evt) ==
  [accountId |-> evt.id, createdAt |-> now, eventId |-> evt.id,
   sessionId |-> Or(evt.session, NULL)]

\* The Correlation Index entry and the email index entry.
IndexEntry(accountId, now, evt) ==
  [accountId |-> accountId, createdAt |-> now, eventId |-> evt.id,
   sessionId |-> Or(evt.session, NULL)]

EmailIndexEntry(accountId, now, email) ==
  [accountId |-> accountId, createdAt |-> now, email |-> email]

\* failedAccount / failedSupport: the projection error recorded under clickup.
WithClickupError(obj, error, now) ==
  [obj EXCEPT !.clickup = [@ EXCEPT !.error = error, !.updatedAt = now]]

\* nextAccount / nextSupport of the projectXToClickUp functions.
WithClickupTask(obj, taskId, now) ==
  [obj EXCEPT !.clickup = [@ EXCEPT !.taskId = taskId, !.updatedAt = now]]

(***************************************************************************)
(* POST /stripe/webhook                                                    *)
(***************************************************************************)
SetReq(r, rq) == req' = [req EXCEPT ![r] = rq]

allowedTypes ==
  {"charge.succeeded", "checkout.session.completed", "payment_intent.succeeded"}

\* Variant: the webhook secret is not checked before the signature.
WebhookEntryNoSecretGuard(rq, now) ==
  LET verified == verifyStripeSignature(rq.body, env.STRIPE_WEBHOOK_SECRET,
                                        rq.sig, toleranceSeconds, now)
      parsed == ParseBody(rq.body)
  IN  IF ~env.R2_VIRTUAL_LAUNCH
        THEN Respond(rq, ErrorResp(500, "Missing R2_VIRTUAL_LAUNCH binding", ""))
      ELSE IF env.AUTH_SIGNING_KEY = ""
        THEN Respond(rq, ErrorResp(500, "Missing AUTH_SIGNING_KEY", ""))
      ELSE IF rq.sig = <<>>
        THEN Respond(rq, ErrorResp(400, "Missing stripe-signature header", ""))
      ELSE IF ~verified.ok
        THEN Respond(rq, ErrorResp(400, "Invalid Stripe signature",
                                   verified.reason))
      ELSE IF ~parsed.ok
        THEN Respond(Log(rq, "verified", NoKey),
                     ErrorResp(400, "Invalid JSON", ""))
      ELSE IF ~Truthy(parsed.evt.id)
        THEN Respond(Log(rq, "verified", NoKey),
                     ErrorResp(400, "Missing event id", ""))
      ELSE IF ~Truthy(parsed.evt.type)
        THEN Respond(Log(rq, "verified", NoKey),
                     ErrorResp(400, "Missing event type", ""))
      ELSE [Log(rq, "verified", NoKey) EXCEPT
              !.pc = "wh_gate", !.evt = parsed.evt]

\* fetch, from the binding guards to the event id / type checks: everything
\* before the first object-store access of the route.
WebhookEntry(rq, now) ==
  LET verified == verifyStripeSignature(rq.body, env.STRIPE_WEBHOOK_SECRET,
                                        rq.sig, toleranceSeconds, now)
      parsed == ParseBody(rq.body)
  IN  IF ~env.R2_VIRTUAL_LAUNCH
        THEN Respond(rq, ErrorResp(500, "Missing R2_VIRTUAL_LAUNCH binding", ""))
      ELSE IF env.AUTH_SIGNING_KEY = ""
        THEN Respond(rq, ErrorResp(500, "Missing AUTH_SIGNING_KEY", ""))
      ELSE IF rq.sig = <<>>
        THEN Respond(rq, ErrorResp(400, "Missing stripe-signature header", ""))
      ELSE IF env.STRIPE_WEBHOOK_SECRET = ""
        THEN Respond(rq, ErrorResp(500, "Missing STRIPE_WEBHOOK_SECRET", ""))
      ELSE IF ~verified.ok
        THEN Respond(rq, ErrorResp(400, "Invalid Stripe signature",
                                   verified.reason))
      ELSE IF ~parsed.ok
        THEN Respond(Log(rq, "verified", NoKey),
                     ErrorResp(400, "Invalid JSON", ""))
      ELSE IF ~Truthy(parsed.evt.id)
        THEN Respond(Log(rq, "verified", NoKey),
                     ErrorResp(400, "Missing event id", ""))
      ELSE IF ~Truthy(parsed.evt.type)
        THEN Respond(Log(rq, "verified", NoKey),
                     ErrorResp(400, "Missing event type", ""))
      ELSE [Log(rq, "verified", NoKey) EXCEPT
              !.pc = "wh_gate", !.evt = parsed.evt]

StripeWebhook(r) ==
  /\ MayStart(r)
  /\ \E body \in scenario.bodies :
       \E sig \in Signatures(scenario.sigs, body, clock) :
         SetReq(r, WebhookEntry(
           [Arrive(r, "webhook") EXCEPT !.body = body, !.sig = sig],
           clock))
  /\ UNCHANGED <<store, clock, faults, clickup, env, scenario>>

\* Variant: an event of a type outside the allowed ones is refused with a
\* 400 (after its receipt was stored).
WebhookDispatchRefusing(rq, now) ==
  LET evt == rq.evt IN
  IF evt.type \notin allowedTypes
    THEN Respond(rq, ErrorResp(400, "Unsupported event type", ""))
  ELSE IF evt.type = "checkout.session.completed"
    THEN IF ~Truthy(evt.payment_intent)
           THEN Respond(rq, [OkResp EXCEPT !.note =
                  "checkout.session.completed missing payment_intent; canonical upsert skipped"])
           ELSE [rq EXCEPT !.pc = "cs_get", !.accountId = evt.payment_intent,
                           !.now = now]
  ELSE IF ~Truthy(evt.payment_intent)
    THEN Respond(rq, [OkResp EXCEPT !.note = "Missing paymentIntentId"])
  ELSE IF evt.type = "payment_intent.succeeded"
    THEN [rq EXCEPT !.pc = "pi_idx"]
  ELSE [rq EXCEPT !.pc = "ch_idx"]

\* Variant: a completion event without a payment intent is upserted under
\* its session id.
WebhookDispatchUpserting(rq, now) ==
  LET evt == rq.evt IN
  IF evt.type \notin allowedTypes
    THEN Respond(rq, [OkResp EXCEPT !.note = "ignoredType"])
  ELSE IF evt.type = "checkout.session.completed"
    THEN [rq EXCEPT !.pc = "cs_get",
                    !.accountId = Or(evt.payment_intent, evt.session),
                    !.now = now]
  ELSE IF ~Truthy(evt.payment_intent)
    THEN Respond(rq, [OkResp EXCEPT !.note = "Missing paymentIntentId"])
  ELSE IF evt.type = "payment_intent.succeeded"
    THEN [rq EXCEPT !.pc = "pi_idx"]
  ELSE [rq EXCEPT !.pc = "ch_idx"]

\* The code after the receipt put, up to the handler's first await.
WebhookDispatch(rq, now) ==
  LET evt == rq.evt IN
  IF evt.type \notin allowedTypes
    THEN Respond(rq, [OkResp EXCEPT !.note = "ignoredType"])
  ELSE IF evt.type = "checkout.session.completed"
    THEN IF ~Truthy(evt.payment_intent)
           THEN Respond(rq, [OkResp EXCEPT !.note =
                  "checkout.session.completed missing payment_intent; canonical upsert skipped"])
           ELSE [rq EXCEPT !.pc = "cs_get", !.accountId = evt.payment_intent,
                           !.now = now]
  ELSE IF ~Truthy(evt.payment_intent)
    THEN Respond(rq, [OkResp EXCEPT !.note = "Missing paymentIntentId"])
  ELSE IF evt.type = "payment_intent.succeeded"
    THEN [rq EXCEPT !.pc = "pi_idx"]
  ELSE [rq EXCEPT !.pc = "ch_idx"]

\* Variant: the receipt lookup never finds a receipt.
existingReceiptNever(source, eventId) ==
  Has(EmptyStore, ReceiptKey(source, eventId))

\* const existingReceipt = await get(receiptKey)
existingReceipt(source, eventId) == Has(store, ReceiptKey(source, eventId))

\* Variant: a new event is dispatched without its receipt being put.
WebhookGetReceiptNoPut(r) ==
  /\ req[r].pc = "wh_gate"
  /\ MayStep(r)
  /\ IF existingReceipt("stripe", req[r].evt.id)
       THEN SetReq(r, Respond(req[r], [OkResp EXCEPT !.deduped = TRUE]))
       ELSE SetReq(r, WebhookDispatch(req[r], clock))
  /\ UNCHANGED <<store, clock, faults, clickup, env, scenario>>

\* if (existingReceipt) return deduped; else go on to the receipt put.
WebhookGetReceipt(r) ==
  /\ req[r].pc = "wh_gate"
  /\ MayStep(r)
  /\ IF existingReceipt("stripe", req[r].evt.id)
       THEN SetReq(r, Respond(req[r], [OkResp EXCEPT !.deduped = TRUE]))
       ELSE SetReq(r, [req[r] EXCEPT !.pc = "wh_put"])
  /\ UNCHANGED <<store, clock, faults, clickup, env, scenario>>

\* await put(receiptKey, rawBody), then the dispatch on the event type.
WebhookPutReceipt(r) ==
  /\ req[r].pc = "wh_put"
  /\ MayStep(r)
  /\ LET key == ReceiptKey("stripe", req[r].evt.id) IN
     \E ok \in Outcomes :
       IF ok
         THEN /\ store' = Put(store, key,
                              [source |-> "stripe", body |-> req[r].body])
              /\ SetReq(r, WebhookDispatch(Log(req[r], "put", key), clock))
              /\ clock' = IF req'[r].pc = "cs_get" THEN clock + 1 ELSE clock
              /\ UNCHANGED faults
         ELSE /\ SetReq(r, Respond(Log(req[r], "putfail", key), ThrownResp))
              /\ faults' = faults + 1
              /\ UNCHANGED <<store, clock>>
  /\ UNCHANGED <<clickup, env, scenario>>

(***************************************************************************)
(* handleCheckoutSessionCompleted                                          *)
(***************************************************************************)
\* Variant: a failing put takes the request's receipt back.
PutStepUndoReceipt(r, key, value, then) ==
  \E ok \in Outcomes :
    IF ok
      THEN /\ store' = Put(store, key, value)
           /\ SetReq(r, Log(then, "put", key))
           /\ UNCHANGED faults
      ELSE /\ SetReq(r, Respond(Log(req[r], "putfail", key), ThrownResp))
           /\ faults' = faults + 1
           /\ store' = [k \in DOMAIN store \ {ReceiptKey("stripe", req[r].evt.id)}
                          |-> store[k]]

\* A put of the handler: on success the request goes on as `then`, on
\* failure the exception leaves fetch().
PutStep(r, key, value, then) ==
  \E ok \in Outcomes :
    IF ok
      THEN /\ store' = Put(store, key, value)
           /\ SetReq(r, Log(then, "put", key))
           /\ UNCHANGED faults
      ELSE /\ SetReq(r, Respond(Log(req[r], "putfail", key), ThrownResp))
           /\ faults' = faults + 1
           /\ UNCHANGED store

TaskId(n) == "task_" \o ToString(n)

\* After the canonical puts: the projection block of the handler, up to its
\* first await.  projectAccountToClickUp throws at once when unconfigured.
AfterCanonical(rq, resp, failPc, projectPc) ==
  IF ~env.CLICKUP_PROJECTION_ENABLED
    THEN Respond(rq, [resp EXCEPT !.projection = "disabled"])
  ELSE IF ~env.CLICKUP_CONFIGURED
    THEN [rq EXCEPT !.pc = failPc, !.projError = "Missing CLICKUP_API_KEY"]
  ELSE [rq EXCEPT !.pc = projectPc]

CheckoutResp(rq) == [OkResp EXCEPT !.accountId = rq.accountId]

CheckoutGetAccount(r) ==
  /\ req[r].pc = "cs_get"
  /\ MayStep(r)
  /\ LET account == Get(store, AccountKey(req[r].accountId)) IN
     SetReq(r, [req[r] EXCEPT
       !.pc = "cs_put",
       !.account = account,
       !.next = Some(CheckoutNextAccount(account, req[r].evt, req[r].now))])
  /\ UNCHANGED <<store, clock, faults, clickup, env, scenario>>

CheckoutPutAccount(r) ==
  /\ req[r].pc = "cs_put"
  /\ MayStep(r)
  /\ PutStep(r, AccountKey(req[r].accountId), req[r].next[1],
             [req[r] EXCEPT !.pc = "cs_idx"])
  /\ UNCHANGED <<clock, clickup, env, scenario>>

CheckoutPutIndex(r) ==
  /\ req[r].pc = "cs_idx"
  /\ MayStep(r)
  /\ PutStep(r, IndexKey(req[r].evt.payment_intent),
             IndexEntry(req[r].accountId, req[r].now, req[r].evt),
             IF Truthy(req[r].evt.email)
               THEN [req[r] EXCEPT !.pc = "cs_email"]
               ELSE AfterCanonical(req[r], CheckoutResp(req[r]),
                              "cs_failput", "cs_project"))
  /\ UNCHANGED <<clock, clickup, env, scenario>>

CheckoutPutEmailIndex(r) ==
  /\ req[r].pc = "cs_email"
  /\ MayStep(r)
  /\ PutStep(r, EmailIndexKey(req[r].evt.email),
             EmailIndexEntry(req[r].accountId, req[r].now, req[r].evt.email),
             AfterCanonical(req[r], CheckoutResp(req[r]),
                              "cs_failput", "cs_project"))
  /\ UNCHANGED <<clock, clickup, env, scenario>>

\* projectAccountToClickUp: the call to the sink (update the task whose id
\* the object carries, else create one).
ProjectCall(r, putPc, failPc) ==
  LET obj == req[r].next[1]
      existingTaskId == obj.clickup.taskId
  IN \E ok \in Outcomes :
    IF ok
      THEN LET taskId == IF Truthy(existingTaskId) THEN existingTaskId
                         ELSE TaskId(clickup + 1)
           IN /\ clickup' = IF Truthy(existingTaskId) THEN clickup
                            ELSE clickup + 1
              /\ SetReq(r, [Log(req[r], "project",
                              <<"clickup", IF Truthy(existingTaskId)
                                           THEN "update" ELSE "create">>)
                  EXCEPT !.pc = putPc,
                         !.projected = Some(WithClickupTask(obj, taskId, clock))])
              /\ UNCHANGED faults
      ELSE /\ SetReq(r, [Log(req[r], "projectfail", <<"clickup", "call">>)
                  EXCEPT !.pc = failPc, !.projError = "ClickUp call failed"])
           /\ faults' = faults + 1
           /\ UNCHANGED clickup

\* projectXToClickUp: the put of the object with its task id.  It runs
\* inside the handler's try, so a failure is caught.
ProjectPut(r, key, failPc, resp) ==
  \E ok \in Outcomes :
    IF ok
      THEN /\ store' = Put(store, key, req[r].projected[1])
           /\ SetReq(r, Respond(Log(req[r], "put", key),
                [resp EXCEPT !.projection = "ok"]))
           /\ UNCHANGED faults
      ELSE /\ SetReq(r, [Log(req[r], "putfail", key)
                  EXCEPT !.pc = failPc, !.projError = "put failed"])
           /\ faults' = faults + 1
           /\ UNCHANGED store

\* The catch block: the put of the object with the error recorded.
FailedPut(r, key, resp) ==
  PutStep(r, key, WithClickupError(req[r].next[1], req[r].projError, clock),
          Respond(req[r], [resp EXCEPT !.projection = "failed"]))

CheckoutProject(r) ==
  /\ req[r].pc = "cs_project"
  /\ MayStep(r)
  /\ ProjectCall(r, "cs_projput", "cs_failput")
  /\ UNCHANGED <<store, clock, env, scenario>>

CheckoutProjectPut(r) ==
  /\ req[r].pc = "cs_projput"
  /\ MayStep(r)
  /\ ProjectPut(r, AccountKey(req[r].accountId), "cs_failput",
                CheckoutResp(req[r]))
  /\ UNCHANGED <<clock, clickup, env, scenario>>

CheckoutFailedPut(r) ==
  /\ req[r].pc = "cs_failput"
  /\ MayStep(r)
  /\ FailedPut(r, AccountKey(req[r].accountId), CheckoutResp(req[r]))
  /\ UNCHANGED <<clock, clickup, env, scenario>>

(***************************************************************************)
(* handlePaymentIntentSucceeded / handleChargeSucceeded                    *)
(***************************************************************************)
\* Variant: without an index entry the payment intent id is taken as the
\* account id.
GetIndexOrGuess(r, nextPc) ==
  LET idx == Get(store, IndexKey(req[r].evt.payment_intent)) IN
  SetReq(r, [req[r] EXCEPT
    !.pc = nextPc,
    !.accountId = IF idx = None THEN req[r].evt.payment_intent
                  ELSE idx[1].accountId])

\* const idx = await get(`stripe/payment-intents/${paymentIntentId}.json`)
GetIndex(r, nextPc) ==
  LET idx == Get(store, IndexKey(req[r].evt.payment_intent)) IN
  IF idx = None
    THEN SetReq(r, Respond(req[r],
           [OkResp EXCEPT !.note = "Missing correlation index"]))
    ELSE SetReq(r, [req[r] EXCEPT !.pc = nextPc,
                                  !.accountId = idx[1].accountId])

\* const existing = await get(accountKey), then the merge in memory:
\* handleChargeSucceeded's when `charge`, handlePaymentIntentSucceeded's
\* otherwise.
GetCorrelatedAccount(r, nextPc, charge) ==
  LET existing == Get(store, AccountKey(req[r].accountId)) IN
  IF existing = None
    THEN SetReq(r, Respond(req[r],
           [OkResp EXCEPT !.note = "Account not found for correlated accountId"]))
    ELSE SetReq(r, [req[r] EXCEPT !.pc = nextPc, !.account = existing,
                      !.next = Some(
                        IF charge
                          THEN ChargeNextAccount(existing[1], req[r].evt)
                          ELSE PaymentIntentNextAccount(existing[1],
                                                        req[r].evt))])

\* Variant: the event is merged into the account stored at the time of the
\* put.
PutCorrelatedAccountFresh(r) ==
  LET key == AccountKey(req[r].accountId)
      stored == Get(store, key)[1]
  IN  PutStep(r, key,
              IF req[r].pc = "ch_put"
                THEN ChargeNextAccount(stored, req[r].evt)
                ELSE PaymentIntentNextAccount(stored, req[r].evt),
              Respond(req[r], [OkResp EXCEPT !.accountId = req[r].accountId]))

PutCorrelatedAccount(r) ==
  PutStep(r, AccountKey(req[r].accountId), req[r].next[1],
          Respond(req[r], [OkResp EXCEPT !.accountId = req[r].accountId]))

PaymentIntentGetIndex(r) ==
  /\ req[r].pc = "pi_idx"
  /\ MayStep(r)
  /\ GetIndex(r, "pi_get")
  /\ UNCHANGED <<store, clock, faults, clickup, env, scenario>>

PaymentIntentGetAccount(r) ==
  /\ req[r].pc = "pi_get"
  /\ MayStep(r)
  /\ GetCorrelatedAccount(r, "pi_put", FALSE)
  /\ UNCHANGED <<store, clock, faults, clickup, env, scenario>>

PaymentIntentPutAccount(r) ==
  /\ req[r].pc = "pi_put"
  /\ MayStep(r)
  /\ PutCorrelatedAccount(r)
  /\ UNCHANGED <<clock, clickup, env, scenario>>

ChargeGetIndex(r) ==
  /\ req[r].pc = "ch_idx"
  /\ MayStep(r)
  /\ GetIndex(r, "ch_get")
  /\ UNCHANGED <<store, clock, faults, clickup, env, scenario>>

ChargeGetAccount(r) ==
  /\ req[r].pc = "ch_get"
  /\ MayStep(r)
  /\ GetCorrelatedAccount(r, "ch_put", TRUE)
  /\ UNCHANGED <<store, clock, faults, clickup, env, scenario>>

ChargePutAccount(r) ==
  /\ req[r].pc = "ch_put"
  /\ MayStep(r)
  /\ PutCorrelatedAccount(r)
  /\ UNCHANGED <<clock, clickup, env, scenario>>

(***************************************************************************)
(* Sessions: signSessionCookie / verifySessionCookie / requireSession.     *)
(* A cookie value is "payloadB64.sig".  payloadB64 is modelled by the JSON *)
(* it decodes to (json = FALSE: it does not decode to JSON), the signature *)
(* by the symbolic MAC of (key, payloadB64).                               *)
(***************************************************************************)
SessionPayload(sessionId, expiresAt) ==
  [json |-> TRUE, sessionId |-> sessionId, expiresAt |-> expiresAt]

NoPayload == [json |-> FALSE, sessionId |-> NULL, expiresAt |-> 0]

hmacSha256B64(secret, message) == [secret |-> secret, message |-> message]

NoCookie ==
  [parts |-> 0, payloadB64 |-> NoPayload, sig |-> hmacSha256B64("", NoPayload)]

signSessionCookie(key, sessionId, expiresAt) ==
  LET payloadB64 == SessionPayload(sessionId, expiresAt) IN
  [parts |-> 2, payloadB64 |-> payloadB64,
   sig |-> hmacSha256B64(key, payloadB64)]

\* Variant: the payload is decoded without comparing the signature.
verifySessionCookieUnsigned(cookieValue, now) ==
  LET payload == cookieValue.payloadB64 IN
  IF cookieValue.parts # 2 \/ ~payload.json
       \/ ~Truthy(payload.sessionId) \/ payload.expiresAt = 0
       \/ now > payload.expiresAt
    THEN [ok |-> FALSE, sessionId |-> NULL, expiresAt |-> 0]
    ELSE [ok |-> TRUE, sessionId |-> payload.sessionId,
          expiresAt |-> payload.expiresAt]

\* expiresAt = 0 stands for "not a string"; times are whole seconds.
verifySessionCookie(cookieValue, now) ==
  LET payload == cookieValue.payloadB64 IN
  IF cookieValue.parts # 2 THEN [ok |-> FALSE, sessionId |-> NULL, expiresAt |-> 0]
  ELSE IF hmacSha256B64(env.AUTH_SIGNING_KEY, payload) # cookieValue.sig
    THEN [ok |-> FALSE, sessionId |-> NULL, expiresAt |-> 0]
  ELSE IF ~payload.json
    THEN [ok |-> FALSE, sessionId |-> NULL, expiresAt |-> 0]
  ELSE IF ~Truthy(payload.sessionId) \/ payload.expiresAt = 0
    THEN [ok |-> FALSE, sessionId |-> NULL, expiresAt |-> 0]
  ELSE IF now > payload.expiresAt
    THEN [ok |-> FALSE, sessionId |-> NULL, expiresAt |-> 0]
  ELSE [ok |-> TRUE, sessionId |-> payload.sessionId,
        expiresAt |-> payload.expiresAt]

SessionKey(sessionId) == <<"auth/sessions", sessionId>>

SessionObj(sessionId, accountId, createdAt, expiresAt) ==
  [accountId |-> accountId, createdAt |-> createdAt, expiresAt |-> expiresAt,
   sessionId |-> sessionId, revokedAt |-> 0]

Unauthenticated ==
  [authenticated |-> FALSE, accountId |-> NULL, expiresAt |-> 0,
   sessionId |-> NULL]

\* Variant: the record's revokedAt is not looked at.
requireSessionUnrevoked(obj, sessionId, now) ==
  IF obj = None THEN Unauthenticated
  ELSE LET session == obj[1] IN
    IF session.expiresAt = 0 \/ now > session.expiresAt
      THEN Unauthenticated
    ELSE IF ~Truthy(session.accountId) THEN Unauthenticated
    ELSE [authenticated |-> TRUE, accountId |-> session.accountId,
          expiresAt |-> session.expiresAt, sessionId |-> sessionId]

\* requireSession after the cookie verified: `obj` is the optional session
\* record read from the store.  revokedAt = 0 stands for "no revokedAt".
requireSession(obj, sessionId, now) ==
  IF obj = None THEN Unauthenticated
  ELSE LET session == obj[1] IN
    IF session.revokedAt # 0 THEN Unauthenticated
    ELSE IF session.expiresAt = 0 \/ now > session.expiresAt
      THEN Unauthenticated
    ELSE IF ~Truthy(session.accountId) THEN Unauthenticated
    ELSE [authenticated |-> TRUE, accountId |-> session.accountId,
          expiresAt |-> session.expiresAt, sessionId |-> sessionId]

\* The cookies set by the responses so far.
IssuedCookies ==
  {req[q].resp.setCookie[1] : q \in {x \in Req : req[x].resp.setCookie # <<>>}}

\* The binding guards and the cookie check of an authenticated form route,
\* up to the read of the session record.
FormEntry(rq, now, sessionPc) ==
  LET verified == verifySessionCookie(rq.cookie, now) IN
  IF ~env.R2_VIRTUAL_LAUNCH
    THEN Respond(rq, ErrorResp(500, "Missing R2_VIRTUAL_LAUNCH binding", ""))
  ELSE IF env.AUTH_SIGNING_KEY = ""
    THEN Respond(rq, ErrorResp(500, "Missing AUTH_SIGNING_KEY", ""))
  ELSE IF rq.cookie.parts = 0 \/ ~verified.ok
    THEN Respond(rq, ErrorResp(401, "Unauthorized", ""))
  ELSE [rq EXCEPT !.pc = sessionPc,
                  !.session = [Unauthenticated EXCEPT
                                 !.sessionId = verified.sessionId]]

(***************************************************************************)
(* POST /forms/support/message                                             *)
(***************************************************************************)
\* A JSON object is a function from its keys to string values.
Field(input, k) == IF k \in DOMAIN input THEN input[k] ELSE NULL

\* String(v || "").trim(), cut to the field's length; the strings of the
\* model are shorter than every limit, " " is a string of white space.
clampString(v) == IF v = NULL \/ v = " " THEN "" ELSE v

\* normalizeEmail: trimmed and lower-cased; "" unless it contains "@".
normalizeEmail(v) ==
  CASE v = "A@X.io" -> "a@x.io"
    [] v = "a@x.io" -> "a@x.io"
    [] v = "b@x.io" -> "b@x.io"
    [] v = "n@x.io" -> "n@x.io"
    [] OTHER -> ""

supportAllowed ==
  {"category", "email", "eventId", "issueType", "message", "name",
   "priority", "relatedOrderId", "sessionToken", "subject", "tokenId",
   "urgency"}

supportRequired ==
  <<"category", "email", "eventId", "issueType", "message", "name",
    "priority", "subject", "urgency">>

\* k.startsWith("utm_")
IsUtm(k) == k \in {"utm_source", "utm_medium"}

\* The keys an input of the model may carry, in sorted order.
KeyOrder ==
  <<"accountId", "category", "email", "eventId", "issueType", "message",
    "name", "priority", "relatedOrderId", "sessionToken", "subject",
    "tokenId", "urgency", "utm_medium", "utm_source", "zzz">>

KeyRank(k) == CHOOSE i \in 1..Len(KeyOrder) : KeyOrder[i] = k

FirstByRank(keys) ==
  CHOOSE k \in keys : \A j \in keys : KeyRank(k) <= KeyRank(j)

SupportPayload(input) ==
  [category |-> clampString(Field(input, "category")),
   email |-> normalizeEmail(Field(input, "email")),
   eventId |-> clampString(Field(input, "eventId")),
   issueType |-> clampString(Field(input, "issueType")),
   message |-> clampString(Field(input, "message")),
   name |-> clampString(Field(input, "name")),
   priority |-> clampString(Field(input, "priority")),
   subject |-> clampString(Field(input, "subject")),
   urgency |-> clampString(Field(input, "urgency")),
   relatedOrderId |-> clampString(Field(input, "relatedOrderId")),
   tokenId |-> clampString(Field(input, "tokenId")),
   utm |-> {k \in DOMAIN input : IsUtm(k) /\ clampString(input[k]) # ""}]

\* Variant: keys outside the allow-list are passed over.
validateSupportIgnoringUnknown(input) ==
  LET payload == SupportPayload(input)
      missing == {i \in 1..Len(supportRequired) :
                    payload[supportRequired[i]] = ""}
  IN  IF missing # {}
        THEN [ok |-> FALSE, payload |-> payload,
              error |-> "Missing " \o
                 supportRequired[CHOOSE i \in missing :
                                   \A j \in missing : i <= j]]
      ELSE [ok |-> TRUE, payload |-> payload, error |-> ""]

validateSupportMessagePayload(input) ==
  LET unknown == {k \in DOMAIN input : ~IsUtm(k) /\ k \notin supportAllowed}
      payload == SupportPayload(input)
      missing == {i \in 1..Len(supportRequired) :
                    payload[supportRequired[i]] = ""}
  IN  IF unknown # {}
        THEN [ok |-> FALSE, payload |-> payload,
              error |-> "Unknown field: " \o FirstByRank(unknown)]
      ELSE IF missing # {}
        THEN [ok |-> FALSE, payload |-> payload,
              error |-> "Missing " \o
                 supportRequired[CHOOSE i \in missing :
                                   \A j \in missing : i <= j]]
      ELSE [ok |-> TRUE, payload |-> payload, error |-> ""]

\* Variant: every event id has the same digest.
Digest8Colliding(eventId) ==
  CASE eventId = "f_1" -> "0000000C"
    [] eventId = "f_2" -> "0000000C"
    [] OTHER -> "0000000C"

\* supportIdFromEventId: "SUP-" and the first 8 hex digits of the SHA-256
\* of the event id, by table.
Digest8(eventId) ==
  CASE eventId = "f_1" -> "0000000A"
    [] eventId = "f_2" -> "0000000B"
    [] OTHER -> "0000000C"

supportIdFromEventId(eventId) == "SUP-" \o Digest8(eventId)

SupportKey(supportId) == <<"support", supportId>>

\* nextSupport: `support` is the optional stored thread.
NextSupport(support, payload, accountId, supportId, now) ==
  [accountId |-> accountId,
   category |-> payload.category,
   createdAt |-> IF support # None /\ support[1].createdAt # 0
                 THEN support[1].createdAt ELSE now,
   email |-> payload.email,
   eventId |-> payload.eventId,
   issueType |-> payload.issueType,
   latestUpdate |-> payload.message,
   messages |-> Append(IF support # None THEN support[1].messages ELSE <<>>,
                       [createdAt |-> now, message |-> payload.message,
                        subject |-> payload.subject]),
   name |-> payload.name,
   priority |-> payload.priority,
   relatedOrderId |-> Or(payload.relatedOrderId, NULL),
   status |-> IF support # None THEN Or(support[1].status, "open / new")
              ELSE "open / new",
   subject |-> payload.subject,
   supportId |-> supportId,
   tokenId |-> Or(payload.tokenId, NULL),
   updatedAt |-> now,
   urgency |-> payload.urgency,
   utm |-> payload.utm,
   clickup |-> IF support # None THEN support[1].clickup ELSE NoClickup]

SupportMessage(r) ==
  /\ MayStart(r)
  /\ \E cookie \in scenario.cookies \cup IssuedCookies,
        ctype \in scenario.ctypes,
        input \in scenario.supportInputs :
       SetReq(r, FormEntry(
         [Arrive(r, "support") EXCEPT !.cookie = cookie,
                        !.ctype = ctype, !.input = input],
         clock, "sm_session"))
  /\ UNCHANGED <<store, clock, faults, clickup, env, scenario>>

\* requireSession's read of the session record, then the content type, the
\* JSON body and the payload validation.  input = NotJson: safeJson fails.
NotJson == [notJson |-> "true"]

SupportGetSession(r) ==
  /\ req[r].pc = "sm_session"
  /\ MayStep(r)
  /\ LET session == requireSession(
                      Get(store, SessionKey(req[r].session.sessionId)),
                      req[r].session.sessionId, clock)
         validated == validateSupportMessagePayload(req[r].input)
     IN  IF ~session.authenticated
           THEN SetReq(r, Respond(req[r], ErrorResp(401, "Unauthorized", "")))
         ELSE IF req[r].ctype # "application/json"
           THEN SetReq(r, Respond(req[r],
                  ErrorResp(415, "Unsupported content-type", "")))
         ELSE IF req[r].input = NotJson
           THEN SetReq(r, Respond(req[r], ErrorResp(400, "Invalid JSON", "")))
         ELSE IF ~validated.ok
           THEN SetReq(r, Respond(req[r],
                  ErrorResp(400, "Invalid payload", validated.error)))
         ELSE SetReq(r, [req[r] EXCEPT
                  !.pc = "sm_gate", !.session = session,
                  !.accountId = session.accountId,
                  !.payload = Some(validated.payload),
                  !.eventId = validated.payload.eventId,
                  !.supportId = supportIdFromEventId(validated.payload.eventId)])
  /\ UNCHANGED <<store, clock, faults, clickup, env, scenario>>

SupportGetReceipt(r) ==
  /\ req[r].pc = "sm_gate"
  /\ MayStep(r)
  /\ IF existingReceipt("forms", req[r].eventId)
       THEN SetReq(r, Respond(req[r], [OkResp EXCEPT
              !.deduped = TRUE, !.supportId = req[r].supportId]))
       ELSE SetReq(r, [req[r] EXCEPT !.pc = "sm_put"])
  /\ UNCHANGED <<store, clock, faults, clickup, env, scenario>>

SupportPutReceipt(r) ==
  /\ req[r].pc = "sm_put"
  /\ MayStep(r)
  /\ PutStep(r, ReceiptKey("forms", req[r].eventId),
             [source |-> "support", body |-> req[r].eventId],
             [req[r] EXCEPT !.pc = "sm_get", !.now = clock])
  /\ clock' = IF req'[r].pc = "sm_get" THEN clock + 1 ELSE clock
  /\ UNCHANGED <<clickup, env, scenario>>

SupportGetThread(r) ==
  /\ req[r].pc = "sm_get"
  /\ MayStep(r)
  /\ LET existing == Get(store, SupportKey(req[r].supportId)) IN
     SetReq(r, [req[r] EXCEPT
       !.pc = "sm_putthread",
       !.account = existing,
       !.next = Some(NextSupport(existing, req[r].payload[1],
                       req[r].session.accountId, req[r].supportId,
                       req[r].now))])
  /\ UNCHANGED <<store, clock, faults, clickup, env, scenario>>

SupportResp(rq) == [OkResp EXCEPT !.supportId = rq.supportId]

SupportPutThread(r) ==
  /\ req[r].pc = "sm_putthread"
  /\ MayStep(r)
  /\ PutStep(r, SupportKey(req[r].supportId), req[r].next[1],
             AfterCanonical(req[r], SupportResp(req[r]),
                            "sm_failput", "sm_project"))
  /\ UNCHANGED <<clock, clickup, env, scenario>>

SupportProject(r) ==
  /\ req[r].pc = "sm_project"
  /\ MayStep(r)
  /\ ProjectCall(r, "sm_projput", "sm_failput")
  /\ UNCHANGED <<store, clock, env, scenario>>

SupportProjectPut(r) ==
  /\ req[r].pc = "sm_projput"
  /\ MayStep(r)
  /\ ProjectPut(r, SupportKey(req[r].supportId), "sm_failput",
                SupportResp(req[r]))
  /\ UNCHANGED <<clock, clickup, env, scenario>>

SupportFailedPut(r) ==
  /\ req[r].pc = "sm_failput"
  /\ MayStep(r)
  /\ FailedPut(r, SupportKey(req[r].supportId), SupportResp(req[r]))
  /\ UNCHANGED <<clock, clickup, env, scenario>>

SupportStep(r) ==
  \/ SupportMessage(r)
  \/ SupportGetSession(r)
  \/ SupportGetReceipt(r)
  \/ SupportPutReceipt(r)
  \/ SupportGetThread(r)
  \/ SupportPutThread(r)
  \/ SupportProject(r)
  \/ SupportProjectPut(r)
  \/ SupportFailedPut(r)

(***************************************************************************)
(* POST /forms/va/publish and upsertDirectoryIndex                         *)
(***************************************************************************)
PageKey(slug) == <<"va/pages", slug>>
DirectoryKey == <<"va/directory", "index.json">>

\* String(v || "").trim()
safeString(v) == IF v = NULL \/ v = " " THEN "" ELSE v

\* localeCompare on the slugs of the model.
SlugOrder == <<"alpha", "mid", "zeta">>
SlugRank(slug) == CHOOSE i \in 1..Len(SlugOrder) : SlugOrder[i] = slug

\* Array.prototype.sort with the slug comparator (a stable sort).
RECURSIVE InsertBySlug(_, _)
InsertBySlug(sorted, x) ==
  IF sorted = <<>> THEN <<x>>
  ELSE IF SlugRank(sorted[Len(sorted)].slug) <= SlugRank(x.slug)
    THEN Append(sorted, x)
    ELSE Append(InsertBySlug(SubSeq(sorted, 1, Len(sorted) - 1), x),
                sorted[Len(sorted)])

RECURSIVE SortBySlug(_)
SortBySlug(list) ==
  IF list = <<>> THEN <<>>
  ELSE InsertBySlug(SortBySlug(SubSeq(list, 1, Len(list) - 1)),
                    list[Len(list)])

FilterOutSlug(list, slug) == SelectSeq(list, LAMBDA x : x.slug # slug)

\* The directory upsertDirectoryIndex writes back: `obj` is the optional
\* stored index.
\* Variant: the new entry is appended without removing the slug's old entry.
NextDirectoryAppend(obj, accountId, slug, updatedAt) ==
  LET directory == IF obj = None THEN <<>> ELSE obj[1].directory IN
  [directory |->
     SortBySlug(Append(directory,
                       [accountId |-> accountId, slug |-> slug,
                        updatedAt |-> updatedAt]))]

NextDirectory(obj, accountId, slug, updatedAt) ==
  LET directory == IF obj = None THEN <<>> ELSE obj[1].directory IN
  [directory |->
     SortBySlug(Append(FilterOutSlug(directory, slug),
                       [accountId |-> accountId, slug |-> slug,
                        updatedAt |-> updatedAt]))]

\* Variant: an accountId field of the form takes precedence.
ProfileOfForm(accountId, eventId, slug, now, form) ==
  [accountId |-> Or(Field(form, "accountId"), accountId), createdAt |-> now,
   eventId |-> eventId, slug |-> slug, updatedAt |-> now, form |-> form]

Profile(accountId, eventId, slug, now, form) ==
  [accountId |-> accountId, createdAt |-> now, eventId |-> eventId,
   slug |-> slug, updatedAt |-> now, form |-> form]

PublishResp(rq) == [OkResp EXCEPT !.slug = rq.slug]

VaPublish(r) ==
  /\ MayStart(r)
  /\ \E cookie \in scenario.cookies \cup IssuedCookies,
        ctype \in scenario.ctypes,
        input \in scenario.publishInputs :
       SetReq(r, FormEntry(
         [Arrive(r, "publish") EXCEPT !.cookie = cookie,
                        !.ctype = ctype, !.input = input],
         clock, "vp_session"))
  /\ UNCHANGED <<store, clock, faults, clickup, env, scenario>>

PublishGetSession(r) ==
  /\ req[r].pc = "vp_session"
  /\ MayStep(r)
  /\ LET session == requireSession(
                      Get(store, SessionKey(req[r].session.sessionId)),
                      req[r].session.sessionId, clock)
         eventId == safeString(Field(req[r].input, "eventId"))
         slug == safeString(Field(req[r].input, "slug"))
     IN  IF ~session.authenticated
           THEN SetReq(r, Respond(req[r], ErrorResp(401, "Unauthorized", "")))
         ELSE IF req[r].ctype # "application/x-www-form-urlencoded"
           THEN SetReq(r, Respond(req[r],
                  ErrorResp(415, "Unsupported content-type", "")))
         ELSE IF eventId = ""
           THEN SetReq(r, Respond(req[r], ErrorResp(400, "Missing eventId", "")))
         ELSE IF slug = ""
           THEN SetReq(r, Respond(req[r], ErrorResp(400, "Missing slug", "")))
         ELSE SetReq(r, [req[r] EXCEPT
                  !.pc = "vp_gate", !.session = session,
                  !.accountId = session.accountId,
                  !.eventId = eventId, !.slug = slug])
  /\ UNCHANGED <<store, clock, faults, clickup, env, scenario>>

PublishGetReceipt(r) ==
  /\ req[r].pc = "vp_gate"
  /\ MayStep(r)
  /\ IF existingReceipt("forms", req[r].eventId)
       THEN SetReq(r, Respond(req[r],
              [PublishResp(req[r]) EXCEPT !.deduped = TRUE]))
       ELSE SetReq(r, [req[r] EXCEPT !.pc = "vp_put"])
  /\ UNCHANGED <<store, clock, faults, clickup, env, scenario>>

PublishPutReceipt(r) ==
  /\ req[r].pc = "vp_put"
  /\ MayStep(r)
  /\ PutStep(r, ReceiptKey("forms", req[r].eventId),
             [source |-> "publish", body |-> req[r].eventId],
             [req[r] EXCEPT !.pc = "vp_page", !.now = clock])
  /\ clock' = IF req'[r].pc = "vp_page" THEN clock + 1 ELSE clock
  /\ UNCHANGED <<clickup, env, scenario>>

PublishPutPage(r) ==
  /\ req[r].pc = "vp_page"
  /\ MayStep(r)
  /\ PutStep(r, PageKey(req[r].slug),
             Profile(req[r].accountId, req[r].eventId, req[r].slug,
                     req[r].now, req[r].input),
             [req[r] EXCEPT !.pc = "vp_dirget"])
  /\ UNCHANGED <<clock, clickup, env, scenario>>

PublishGetDirectory(r) ==
  /\ req[r].pc = "vp_dirget"
  /\ MayStep(r)
  /\ SetReq(r, [req[r] EXCEPT
       !.pc = "vp_dirput",
       !.next = Some(NextDirectory(Get(store, DirectoryKey),
                       req[r].accountId, req[r].slug, req[r].now))])
  /\ UNCHANGED <<store, clock, faults, clickup, env, scenario>>

PublishPutDirectory(r) ==
  /\ req[r].pc = "vp_dirput"
  /\ MayStep(r)
  /\ PutStep(r, DirectoryKey, req[r].next[1],
             Respond(req[r], PublishResp(req[r])))
  /\ UNCHANGED <<clock, clickup, env, scenario>>

PublishStep(r) ==
  \/ VaPublish(r)
  \/ PublishGetSession(r)
  \/ PublishGetReceipt(r)
  \/ PublishPutReceipt(r)
  \/ PublishPutPage(r)
  \/ PublishGetDirectory(r)
  \/ PublishPutDirectory(r)

(***************************************************************************)
(* POST /auth/login, GET /auth/confirm, GET /auth/session, POST            *)
(* /auth/logout.  Random tokens and session ids are named after the        *)
(* request that draws them; sha256Hex(token) is "h_" followed by the token. *)
(***************************************************************************)
sha256Hex(token) == "h_" \o token

TokenKey(tokenHash) == <<"auth/login-tokens", tokenHash>>

TokenTtl == 900

\* tokenObj of POST /auth/login; usedAt = 0 stands for "no usedAt".
TokenObj(accountId, email, now, tokenHash) ==
  [accountId |-> accountId, createdAt |-> now, email |-> email,
   expiresAt |-> now + TokenTtl, tokenHash |-> tokenHash, usedAt |-> 0]

RedirectResp(location) ==
  [NoResp EXCEPT !.status = 302, !.location = location]

LoginError == RedirectResp("/va/login?error=invalid_or_expired")

\* The guards every route passes first.
BindingError ==
  IF ~env.R2_VIRTUAL_LAUNCH
    THEN Some(ErrorResp(500, "Missing R2_VIRTUAL_LAUNCH binding", ""))
  ELSE IF env.AUTH_SIGNING_KEY = ""
    THEN Some(ErrorResp(500, "Missing AUTH_SIGNING_KEY", ""))
  ELSE None

\* The cookies a client can present: no cookie, the cookies the scenario
\* names and every cookie a response has set.
PresentedCookies == {NoCookie} \cup scenario.cookies \cup IssuedCookies

\* The tokens a client can present: none (NULL), the tokens the scenario
\* starts with and the tokens sent out by POST /auth/login.
PresentedTokens ==
  scenario.tokens \cup
    {req[q].token : q \in {x \in Req : req[x].route = "login"
                                       /\ req[x].resp.status = 200}}

\* The binding guards and the cookie part of requireSession, as in
\* FormEntry, for a route that answers `anonymous` to a request without a
\* session.
SessionEntry(rq, now, sessionPc, anonymous) ==
  LET verified == verifySessionCookie(rq.cookie, now) IN
  IF ~env.R2_VIRTUAL_LAUNCH
    THEN Respond(rq, ErrorResp(500, "Missing R2_VIRTUAL_LAUNCH binding", ""))
  ELSE IF env.AUTH_SIGNING_KEY = ""
    THEN Respond(rq, ErrorResp(500, "Missing AUTH_SIGNING_KEY", ""))
  ELSE IF rq.cookie.parts = 0 \/ ~verified.ok
    THEN Respond(rq, anonymous)
  ELSE [rq EXCEPT !.pc = sessionPc,
                  !.session = [Unauthenticated EXCEPT
                                 !.sessionId = verified.sessionId]]

\* POST /auth/login up to the read of the email index.
AuthLogin(r) ==
  /\ MayStart(r)
  /\ \E email \in scenario.emails :
       LET rq == [Arrive(r, "login") EXCEPT !.email = normalizeEmail(email)]
       IN  SetReq(r, IF BindingError # None
                       THEN Respond(rq, BindingError[1])
                     ELSE IF rq.email = ""
                       THEN Respond(rq, ErrorResp(400, "Invalid email", ""))
                       ELSE [rq EXCEPT !.pc = "li_resolve"])
  /\ UNCHANGED <<store, clock, faults, clickup, env, scenario>>

\* Variant: an email without an index entry is refused.
LoginResolveKnownOnly(r) ==
  /\ req[r].pc = "li_resolve"
  /\ MayStep(r)
  /\ LET obj == Get(store, EmailIndexKey(req[r].email))
         accountId == IF obj = None THEN NULL ELSE Or(obj[1].accountId, NULL)
         token == "tok_" \o ToString(r)
     IN  SetReq(r, IF obj = None
           THEN Respond(req[r], ErrorResp(404, "Unknown email", ""))
           ELSE [req[r] EXCEPT
                   !.pc = "li_put", !.token = token, !.now = clock,
                   !.tokenObj = Some(TokenObj(accountId, req[r].email, clock,
                                              sha256Hex(token)))])
  /\ clock' = clock + 1
  /\ UNCHANGED <<store, faults, clickup, env, scenario>>

\* resolveAccountIdByEmailBestEffort, then the token and its record.
LoginResolve(r) ==
  /\ req[r].pc = "li_resolve"
  /\ MayStep(r)
  /\ LET obj == Get(store, EmailIndexKey(req[r].email))
         accountId == IF obj = None THEN NULL ELSE Or(obj[1].accountId, NULL)
         token == "tok_" \o ToString(r)
     IN  SetReq(r, [req[r] EXCEPT
           !.pc = "li_put", !.token = token, !.now = clock,
           !.tokenObj = Some(TokenObj(accountId, req[r].email, clock,
                                      sha256Hex(token)))])
  /\ clock' = clock + 1
  /\ UNCHANGED <<store, faults, clickup, env, scenario>>

LoginPutToken(r) ==
  /\ req[r].pc = "li_put"
  /\ MayStep(r)
  /\ PutStep(r, TokenKey(req[r].tokenObj[1].tokenHash), req[r].tokenObj[1],
             Respond(req[r], OkResp))
  /\ UNCHANGED <<clock, clickup, env, scenario>>

\* GET /auth/confirm up to the read of the token record.
AuthConfirm(r) ==
  /\ MayStart(r)
  /\ \E token \in PresentedTokens :
       LET rq == [Arrive(r, "confirm") EXCEPT !.token = token]
       IN  SetReq(r, IF BindingError # None
                       THEN Respond(rq, BindingError[1])
                     ELSE IF ~Truthy(token) THEN Respond(rq, LoginError)
                     ELSE [rq EXCEPT !.pc = "cf_get"])
  /\ UNCHANGED <<store, clock, faults, clickup, env, scenario>>

\* Variant: a token without an account is resolved again through the email
\* index when it is confirmed.
ConfirmGetTokenResolving(r) ==
  /\ req[r].pc = "cf_get"
  /\ MayStep(r)
  /\ LET obj == Get(store, TokenKey(sha256Hex(req[r].token))) IN
     IF obj = None
       THEN SetReq(r, Respond(req[r], LoginError)) /\ UNCHANGED clock
     ELSE IF obj[1].usedAt # 0
       THEN SetReq(r, Respond(req[r], LoginError)) /\ clock' = clock + 1
     ELSE IF obj[1].expiresAt = 0 \/ clock > obj[1].expiresAt
       THEN SetReq(r, Respond(req[r], LoginError)) /\ clock' = clock + 1
     ELSE LET idx == Get(store, EmailIndexKey(obj[1].email)) IN
          /\ SetReq(r, [req[r] EXCEPT
               !.pc = "cf_puttoken", !.now = clock, !.tokenObj = obj,
               !.accountId = Or(obj[1].accountId,
                                IF idx = None THEN NULL
                                ELSE Or(idx[1].accountId, NULL))])
          /\ clock' = clock + 1
  /\ UNCHANGED <<store, faults, clickup, env, scenario>>

\* Variant: a token is refused from its expiresAt instant on.
ConfirmGetTokenStrict(r) ==
  /\ req[r].pc = "cf_get"
  /\ MayStep(r)
  /\ LET obj == Get(store, TokenKey(sha256Hex(req[r].token))) IN
     IF obj = None
       THEN SetReq(r, Respond(req[r], LoginError)) /\ UNCHANGED clock
     ELSE IF obj[1].usedAt # 0
       THEN SetReq(r, Respond(req[r], LoginError)) /\ clock' = clock + 1
     ELSE IF obj[1].expiresAt = 0 \/ clock >= obj[1].expiresAt
       THEN SetReq(r, Respond(req[r], LoginError)) /\ clock' = clock + 1
     ELSE /\ SetReq(r, [req[r] EXCEPT
               !.pc = "cf_puttoken", !.now = clock, !.tokenObj = obj,
               !.accountId = Or(obj[1].accountId, NULL)])
          /\ clock' = clock + 1
  /\ UNCHANGED <<store, faults, clickup, env, scenario>>

\* The read of the token record and the checks on it.
ConfirmGetToken(r) ==
  /\ req[r].pc = "cf_get"
  /\ MayStep(r)
  /\ LET obj == Get(store, TokenKey(sha256Hex(req[r].token))) IN
     IF obj = None
       THEN SetReq(r, Respond(req[r], LoginError)) /\ UNCHANGED clock
     ELSE IF obj[1].usedAt # 0
       THEN SetReq(r, Respond(req[r], LoginError)) /\ clock' = clock + 1
     ELSE IF obj[1].expiresAt = 0 \/ clock > obj[1].expiresAt
       THEN SetReq(r, Respond(req[r], LoginError)) /\ clock' = clock + 1
     ELSE /\ SetReq(r, [req[r] EXCEPT
               !.pc = "cf_puttoken", !.now = clock, !.tokenObj = obj,
               !.accountId = Or(obj[1].accountId, NULL)])
          /\ clock' = clock + 1
  /\ UNCHANGED <<store, faults, clickup, env, scenario>>

\* put(tokenKey, usedTokenObj)
ConfirmPutToken(r) ==
  /\ req[r].pc = "cf_puttoken"
  /\ MayStep(r)
  /\ PutStep(r, TokenKey(sha256Hex(req[r].token)),
             [req[r].tokenObj[1] EXCEPT !.usedAt = req[r].now],
             [req[r] EXCEPT !.pc = "cf_putsession"])
  /\ UNCHANGED <<clock, clickup, env, scenario>>

\* The session record, its put and the redirect that sets the cookie.
ConfirmPutSession(r) ==
  /\ req[r].pc = "cf_putsession"
  /\ MayStep(r)
  /\ LET sessionId == "sid_" \o ToString(r)
         sessionExpiresAt == clock + SessionTtl
     IN  PutStep(r, SessionKey(sessionId),
           SessionObj(sessionId, req[r].accountId, req[r].now,
                      sessionExpiresAt),
           Respond(req[r], [RedirectResp("/va/dashboard") EXCEPT
             !.setCookie = Some(signSessionCookie(env.AUTH_SIGNING_KEY,
                                  sessionId, sessionExpiresAt))]))
  /\ UNCHANGED <<clock, clickup, env, scenario>>

\* GET /auth/session up to requireSession's read of the session record.
AuthSession(r) ==
  /\ MayStart(r)
  /\ \E cookie \in PresentedCookies :
       SetReq(r, SessionEntry([Arrive(r, "session") EXCEPT !.cookie = cookie],
                              clock, "as_get", OkResp))
  /\ clock' = clock + 1
  /\ UNCHANGED <<store, faults, clickup, env, scenario>>

SessionGet(r) ==
  /\ req[r].pc = "as_get"
  /\ MayStep(r)
  /\ LET session == requireSession(
                      Get(store, SessionKey(req[r].session.sessionId)),
                      req[r].session.sessionId, clock)
     IN  SetReq(r, Respond([req[r] EXCEPT !.session = session],
           [OkResp EXCEPT !.authenticated = session.authenticated,
                          !.accountId = IF session.authenticated
                                        THEN session.accountId ELSE ""]))
  /\ UNCHANGED <<store, clock, faults, clickup, env, scenario>>

\* POST /auth/logout: the response clears the cookie whatever happened.
LogoutResp == OkResp

AuthLogout(r) ==
  /\ MayStart(r)
  /\ \E cookie \in PresentedCookies :
       SetReq(r, SessionEntry([Arrive(r, "logout") EXCEPT !.cookie = cookie],
                              clock, "lo_session", LogoutResp))
  /\ clock' = clock + 1
  /\ UNCHANGED <<store, faults, clickup, env, scenario>>

\* requireSession's read; if (session?.sessionId) ...
LogoutGetSession(r) ==
  /\ req[r].pc = "lo_session"
  /\ MayStep(r)
  /\ LET session == requireSession(
                      Get(store, SessionKey(req[r].session.sessionId)),
                      req[r].session.sessionId, clock)
     IN  SetReq(r, IF Truthy(session.sessionId)
                     THEN [req[r] EXCEPT !.pc = "lo_get", !.session = session]
                     ELSE Respond([req[r] EXCEPT !.session = session],
                                  LogoutResp))
  /\ UNCHANGED <<store, clock, faults, clickup, env, scenario>>

\* Variant: a record that is already revoked is stored without revokedAt.
LogoutGetRecordToggle(r) ==
  /\ req[r].pc = "lo_get"
  /\ MayStep(r)
  /\ LET obj == Get(store, SessionKey(req[r].session.sessionId)) IN
     IF obj = None
       THEN SetReq(r, Respond(req[r], LogoutResp)) /\ UNCHANGED clock
       ELSE /\ SetReq(r, [req[r] EXCEPT !.pc = "lo_put",
                 !.next = Some([obj[1] EXCEPT !.revokedAt =
                                  IF @ # 0 THEN 0 ELSE clock])])
            /\ clock' = clock + 1
  /\ UNCHANGED <<store, faults, clickup, env, scenario>>

\* const obj = await get(key); next = { ...s, revokedAt: now }
LogoutGetRecord(r) ==
  /\ req[r].pc = "lo_get"
  /\ MayStep(r)
  /\ LET obj == Get(store, SessionKey(req[r].session.sessionId)) IN
     IF obj = None
       THEN SetReq(r, Respond(req[r], LogoutResp)) /\ UNCHANGED clock
       ELSE /\ SetReq(r, [req[r] EXCEPT !.pc = "lo_put",
                 !.next = Some([obj[1] EXCEPT !.revokedAt = clock])])
            /\ clock' = clock + 1
  /\ UNCHANGED <<store, faults, clickup, env, scenario>>

\* The put of the revoked record, inside try { } catch { ignore }.
LogoutPutRecord(r) ==
  /\ req[r].pc = "lo_put"
  /\ MayStep(r)
  /\ LET key == SessionKey(req[r].session.sessionId) IN
     \E ok \in Outcomes :
       IF ok
         THEN /\ store' = Put(store, key, req[r].next[1])
              /\ SetReq(r, Respond(Log(req[r], "put", key), LogoutResp))
              /\ UNCHANGED faults
         ELSE /\ SetReq(r, Respond(Log(req[r], "putfail", key), LogoutResp))
              /\ faults' = faults + 1
              /\ UNCHANGED store
  /\ UNCHANGED <<clock, clickup, env, scenario>>

AuthStep(r) ==
  \/ AuthLogin(r)
  \/ LoginResolve(r)
  \/ LoginPutToken(r)
  \/ AuthConfirm(r)
  \/ ConfirmGetToken(r)
  \/ ConfirmPutToken(r)
  \/ ConfirmPutSession(r)
  \/ AuthSession(r)
  \/ SessionGet(r)
  \/ AuthLogout(r)
  \/ LogoutGetSession(r)
  \/ LogoutGetRecord(r)
  \/ LogoutPutRecord(r)

(***************************************************************************)
(* fetch(): the guards, the method check, the preflight, the routing table *)
(* and the read models GET /health, GET /support/status, GET /directory.   *)
(***************************************************************************)
allowedMethod(method) == method \in {"GET", "OPTIONS", "POST"}

\* Variant: the table is looked up by path alone.
RouteOfPath(method, path) ==
  CASE path = "/health" -> "health"
    [] path = "/support/status" -> "status"
    [] path = "/directory" -> "directory"
    [] path = "/auth/login" -> "login"
    [] path = "/auth/confirm" -> "confirm"
    [] path = "/auth/session" -> "session"
    [] path = "/auth/logout" -> "logout"
    [] path = "/forms/support/message" -> "support"
    [] path = "/forms/va/publish" -> "publish"
    [] path = "/stripe/webhook" -> "webhook"
    [] OTHER -> ""

\* The chain of `request.method === m && url.pathname === p` tests; "" is
\* the fall-through to the 404 at its end.
RouteOf(method, path) ==
  CASE method = "GET" /\ path = "/health" -> "health"
    [] method = "GET" /\ path = "/support/status" -> "status"
    [] method = "GET" /\ path = "/directory" -> "directory"
    [] method = "POST" /\ path = "/auth/login" -> "login"
    [] method = "GET" /\ path = "/auth/confirm" -> "confirm"
    [] method = "GET" /\ path = "/auth/session" -> "session"
    [] method = "POST" /\ path = "/auth/logout" -> "logout"
    [] method = "POST" /\ path = "/forms/support/message" -> "support"
    [] method = "POST" /\ path = "/forms/va/publish" -> "publish"
    [] method = "POST" /\ path = "/stripe/webhook" -> "webhook"
    [] OTHER -> ""

\* The routes whose handlers are the actions above.
HandlerRoutes ==
  {"login", "confirm", "session", "logout", "support", "publish", "webhook"}

\* fetch() for a request to anything but a handler route, up to the first
\* read of the store.
FetchEntry(rq) ==
  LET route == RouteOf(rq.method, rq.path) IN
  IF BindingError # None THEN Respond(rq, BindingError[1])
  ELSE IF ~allowedMethod(rq.method)
    THEN Respond(rq, [ErrorResp(405, "Method not allowed", "")
                        EXCEPT !.method = rq.method])
  ELSE IF rq.method = "OPTIONS" THEN Respond(rq, [NoResp EXCEPT !.status = 204])
  ELSE IF route = "health"
    THEN Respond(rq, [OkResp EXCEPT !.note = "health"])
  ELSE IF route = "status"
    THEN IF safeString(rq.supportId) = ""
           THEN Respond(rq, ErrorResp(400, "Missing supportId", ""))
           ELSE [rq EXCEPT !.pc = "st_get"]
  ELSE IF route = "directory" THEN [rq EXCEPT !.pc = "dir_get"]
  ELSE Respond(rq, [ErrorResp(404, "Not found", "") EXCEPT !.path = rq.path])

Fetch(r) ==
  /\ MayStart(r)
  /\ \E method \in scenario.methods, path \in scenario.paths,
        supportId \in scenario.supportIds :
       /\ RouteOf(method, path) \notin HandlerRoutes
            \/ BindingError # None
       /\ path # "/support/status" => supportId = NULL
       /\ SetReq(r, FetchEntry(
            [Arrive(r, RouteOf(method, path)) EXCEPT
               !.method = method, !.path = path, !.supportId = supportId]))
  /\ UNCHANGED <<store, clock, faults, clickup, env, scenario>>

\* Variant: the read stamps the thread it returns.
SupportStatusGetStamping(r) ==
  /\ req[r].pc = "st_get"
  /\ MayStep(r)
  /\ LET key == SupportKey(req[r].supportId)
         obj == Get(store, key)
     IN  IF obj = None
           THEN /\ SetReq(r, Respond(Log(req[r], "get", key),
                     [ErrorResp(404, "Not found", "")
                        EXCEPT !.supportId = req[r].supportId]))
                /\ UNCHANGED store
           ELSE /\ SetReq(r, Respond(Log(req[r], "get", key),
                     [NoResp EXCEPT !.status = 200,
                                    !.supportId = req[r].supportId]))
                /\ store' = Put(store, key,
                                [obj[1] EXCEPT !.updatedAt = clock])
  /\ UNCHANGED <<clock, faults, clickup, env, scenario>>

\* GET /support/status after its read of the thread.
SupportStatusGet(r) ==
  /\ req[r].pc = "st_get"
  /\ MayStep(r)
  /\ LET obj == Get(store, SupportKey(req[r].supportId)) IN
     SetReq(r, Respond(Log(req[r], "get", SupportKey(req[r].supportId)),
       IF obj = None
         THEN [ErrorResp(404, "Not found", "")
                 EXCEPT !.supportId = req[r].supportId]
         ELSE [NoResp EXCEPT
                 !.status = 200, !.supportId = req[r].supportId,
                 !.data = Some([latestUpdate |-> Or(obj[1].latestUpdate, ""),
                                status |-> Or(obj[1].status, ""),
                                updatedAt |-> obj[1].updatedAt])]))
  /\ UNCHANGED <<store, clock, faults, clickup, env, scenario>>

\* GET /directory after its read of the index.
DirectoryGet(r) ==
  /\ req[r].pc = "dir_get"
  /\ MayStep(r)
  /\ LET obj == Get(store, DirectoryKey) IN
     SetReq(r, Respond(Log(req[r], "get", DirectoryKey),
       [NoResp EXCEPT !.status = 200,
          !.data = Some(IF obj = None THEN [directory |-> <<>>] ELSE obj[1])]))
  /\ UNCHANGED <<store, clock, faults, clickup, env, scenario>>

WebhookStep(r) ==
  \/ StripeWebhook(r)
  \/ WebhookGetReceipt(r)
  \/ WebhookPutReceipt(r)
  \/ CheckoutGetAccount(r)
  \/ CheckoutPutAccount(r)
  \/ CheckoutPutIndex(r)
  \/ CheckoutPutEmailIndex(r)
  \/ CheckoutProject(r)
  \/ CheckoutProjectPut(r)
  \/ CheckoutFailedPut(r)
  \/ PaymentIntentGetIndex(r)
  \/ PaymentIntentGetAccount(r)
  \/ PaymentIntentPutAccount(r)
  \/ ChargeGetIndex(r)
  \/ ChargeGetAccount(r)
  \/ ChargePutAccount(r)

(***************************************************************************)
(* Specifications.                                                         *)
(***************************************************************************)
\* CLICKUP_CONFIGURED: CLICKUP_API_KEY and the list id of the projection are
\* both set.
Env(projection, configured) ==
  [R2_VIRTUAL_LAUNCH |-> TRUE, AUTH_SIGNING_KEY |-> "authkey",
   STRIPE_WEBHOOK_SECRET |-> "whsec",
   CLICKUP_PROJECTION_ENABLED |-> projection,
   CLICKUP_CONFIGURED |-> configured]

\* The store after one earlier customer went through checkout (event
\* evt_seed, payment intent pi_0), logged in and confirmed: the state in
\* which the authenticated form routes can be used at all.
SeedTime == Now0 - 100
SeedEvt ==
  Evt("evt_seed", "checkout.session.completed", "pi_0", "complete", NULL,
      "cs_seed", "a@x.io", "Ann")

SeededStore ==
  LET s1 == Put(EmptyStore, ReceiptKey("stripe", "evt_seed"),
                [source |-> "stripe", body |-> "b_seed"])
      s2 == Put(s1, AccountKey("pi_0"),
                CheckoutNextAccount(None, SeedEvt, SeedTime))
      s3 == Put(s2, IndexKey("pi_0"), IndexEntry("pi_0", SeedTime, SeedEvt))
      s4 == Put(s3, EmailIndexKey("a@x.io"),
                EmailIndexEntry("pi_0", SeedTime, "a@x.io"))
      s5 == Put(s4, <<"auth/login-tokens", "h_seed">>,
                [accountId |-> "pi_0", createdAt |-> SeedTime + 1,
                 email |-> "a@x.io", expiresAt |-> SeedTime + 901,
                 tokenHash |-> "h_seed", usedAt |-> SeedTime + 2])
  IN  Put(s5, SessionKey("s_1"),
          SessionObj("s_1", "pi_0", SeedTime + 2, SeedTime + 2 + SessionTtl))

SeedCookie == signSessionCookie("authkey", "s_1", SeedTime + 2 + SessionTtl)

SupportInput(eventId) ==
  [category |-> "billing", email |-> "A@X.io", eventId |-> eventId,
   issueType |-> "Payment", message |-> "help", name |-> "Ann",
   priority |-> "High", subject |-> "hello", urgency |-> "now"]

PublishInput(eventId, slug) == [eventId |-> eventId, slug |-> slug]

\* Concurrent webhook deliveries; the object store and the sink answer
\* every call (faults are injected in SpecSeq).
Init ==
  /\ store = EmptyStore
  /\ req = [r \in Req |-> IdleReq]
  /\ clock = Now0
  /\ faults = 0
  /\ clickup = 0
  /\ env \in {Env(p, c) : p, c \in BOOLEAN}
  /\ scenario = [slots |-> NumReq, sequential |-> FALSE,
                 maxFaults |-> 0,
                 bodies |-> {"b_cs1", "b_cs0", "b_pi1", "b_ch1", "b_inv"},
                 sigs |-> {"valid", "forged"},
                 cookies |-> {}, ctypes |-> {}, supportInputs |-> {},
                 publishInputs |-> {}]

Next == \E r \in Req : WebhookStep(r)

Spec == Init /\ [][Next]_vars

\* Requests on the three receipt-gated routes, handled one after the other,
\* with fault injection.
InitSeq ==
  /\ store = SeededStore
  /\ req = [r \in Req |-> IdleReq]
  /\ clock = Now0
  /\ faults = 0
  /\ clickup = 0
  /\ env \in {Env(p, TRUE) : p \in BOOLEAN}
  /\ scenario = [slots |-> NumSeqReq, sequential |-> TRUE,
                 maxFaults |-> MaxFaults,
                 bodies |-> {"b_cs1", "b_cs0", "b_pi1", "b_ch1", "b_inv"},
                 sigs |-> {"valid"},
                 cookies |-> {SeedCookie},
                 ctypes |-> {"application/json",
                             "application/x-www-form-urlencoded"},
                 supportInputs |-> {SupportInput("f_1")},
                 publishInputs |-> {PublishInput("f_1", "zeta"),
                                    PublishInput("f_2", "alpha")}]

NextSeq == \E r \in Req : WebhookStep(r) \/ SupportStep(r) \/ PublishStep(r)

SpecSeq == InitSeq /\ [][NextSeq]_vars

\* One webhook request with an arbitrary signature header.
InitSig ==
  /\ store = EmptyStore
  /\ req = [r \in Req |-> IdleReq]
  /\ clock = Now0
  /\ faults = 0
  /\ clickup = 0
  /\ env = Env(FALSE, TRUE)
  /\ scenario = [slots |-> 1, sequential |-> TRUE, maxFaults |-> 0,
                 bodies |-> {"b_inv", "b_garbage"},
                 sigs |-> {"any"},
                 cookies |-> {}, ctypes |-> {}, supportInputs |-> {},
                 publishInputs |-> {}]

NextSig ==
  \E r \in Req :
    StripeWebhook(r) \/ WebhookGetReceipt(r) \/ WebhookPutReceipt(r)

SpecSig == InitSig /\ [][NextSig]_vars

\* Concurrent deliveries, duplicates included, of a completion event and
\* the confirmation event of the same payment intent.
InitRedelivery ==
  /\ store = EmptyStore
  /\ req = [r \in Req |-> IdleReq]
  /\ clock = Now0
  /\ faults = 0
  /\ clickup = 0
  /\ env = Env(FALSE, TRUE)
  /\ scenario = [slots |-> NumDeliveries, sequential |-> FALSE,
                 maxFaults |-> 0,
                 bodies |-> {"b_cs1", "b_pi1"},
                 sigs |-> {"valid"},
                 cookies |-> {}, ctypes |-> {}, supportInputs |-> {},
                 publishInputs |-> {}]

NextRedelivery ==
  \E r \in Req :
    \/ StripeWebhook(r)
    \/ WebhookGetReceipt(r)
    \/ WebhookPutReceipt(r)
    \/ CheckoutGetAccount(r)
    \/ CheckoutPutAccount(r)
    \/ CheckoutPutIndex(r)
    \/ CheckoutPutEmailIndex(r)
    \/ PaymentIntentGetIndex(r)
    \/ PaymentIntentGetAccount(r)
    \/ PaymentIntentPutAccount(r)

SpecRedelivery == InitRedelivery /\ [][NextRedelivery]_vars

\* Deliveries, one after the other, of events of one payment intent that
\* carry different sets of fields.
InitMerge ==
  /\ store = EmptyStore
  /\ req = [r \in Req |-> IdleReq]
  /\ clock = Now0
  /\ faults = 0
  /\ clickup = 0
  /\ env = Env(FALSE, TRUE)
  /\ scenario = [slots |-> NumSeqReq, sequential |-> TRUE, maxFaults |-> 0,
                 bodies |-> {"b_cs1", "b_cs2", "b_cs3", "b_pi1", "b_pi2",
                             "b_ch1", "b_ch2"},
                 sigs |-> {"valid"},
                 cookies |-> {}, ctypes |-> {}, supportInputs |-> {},
                 publishInputs |-> {}]

NextMerge ==
  \E r \in Req :
    \/ StripeWebhook(r)
    \/ WebhookGetReceipt(r)
    \/ WebhookPutReceipt(r)
    \/ CheckoutGetAccount(r)
    \/ CheckoutPutAccount(r)
    \/ CheckoutPutIndex(r)
    \/ CheckoutPutEmailIndex(r)
    \/ PaymentIntentGetIndex(r)
    \/ PaymentIntentGetAccount(r)
    \/ PaymentIntentPutAccount(r)
    \/ ChargeGetIndex(r)
    \/ ChargeGetAccount(r)
    \/ ChargePutAccount(r)

SpecMerge == InitMerge /\ [][NextMerge]_vars

\* Two different completion events of one payment intent, and a
\* confirmation event, delivered concurrently.
InitUpsertRace ==
  /\ store = EmptyStore
  /\ req = [r \in Req |-> IdleReq]
  /\ clock = Now0
  /\ faults = 0
  /\ clickup = 0
  /\ env = Env(FALSE, TRUE)
  /\ scenario = [slots |-> NumReq, sequential |-> FALSE, maxFaults |-> 0,
                 bodies |-> {"b_cs1", "b_cs2", "b_pi1"},
                 sigs |-> {"valid"},
                 cookies |-> {}, ctypes |-> {}, supportInputs |-> {},
                 publishInputs |-> {}]

NextUpsertRace ==
  \E r \in Req :
    \/ StripeWebhook(r)
    \/ WebhookGetReceipt(r)
    \/ WebhookPutReceipt(r)
    \/ CheckoutGetAccount(r)
    \/ CheckoutPutAccount(r)
    \/ CheckoutPutIndex(r)
    \/ CheckoutPutEmailIndex(r)
    \/ PaymentIntentGetIndex(r)
    \/ PaymentIntentGetAccount(r)
    \/ PaymentIntentPutAccount(r)

SpecUpsertRace == InitUpsertRace /\ [][NextUpsertRace]_vars

\* Publish requests of one account, one after the other, two of them for
\* the same slug.
InitPublish ==
  /\ store = SeededStore
  /\ req = [r \in Req |-> IdleReq]
  /\ clock = Now0
  /\ faults = 0
  /\ clickup = 0
  /\ env = Env(FALSE, TRUE)
  /\ scenario = [slots |-> NumSeqReq, sequential |-> TRUE, maxFaults |-> 0,
                 bodies |-> {}, sigs |-> {},
                 cookies |-> {SeedCookie},
                 ctypes |-> {"application/x-www-form-urlencoded"},
                 supportInputs |-> {},
                 publishInputs |-> {PublishInput("f_1", "zeta"),
                                    PublishInput("f_2", "zeta"),
                                    PublishInput("f_3", "mid")}]

NextPublish == \E r \in Req : PublishStep(r)

SpecPublish == InitPublish /\ [][NextPublish]_vars

\* Sign-in, session and sign-out requests, handled one at a time, over a
\* store that holds, next to the seeded objects: session s_0 of a sign-in
\* under an address without an account (accountId null), session s_x that
\* expires one second after the first request, the unused token "new" that
\* expires at the time of the first request, and the unused token "old"
\* that has expired.
SeedToken(token, accountId, expiresAt) ==
  [TokenObj(accountId, "a@x.io", expiresAt - TokenTtl, sha256Hex(token))
     EXCEPT !.usedAt = 0]

AuthStore ==
  LET s1 == Put(SeededStore, SessionKey("s_0"),
                SessionObj("s_0", NULL, SeedTime + 3,
                           SeedTime + 3 + SessionTtl))
      s2 == Put(s1, SessionKey("s_x"),
                SessionObj("s_x", "pi_0", Now0 + 1 - SessionTtl, Now0 + 1))
      s3 == Put(s2, TokenKey(sha256Hex("new")), SeedToken("new", "pi_0", Now0))
  IN  Put(s3, TokenKey(sha256Hex("old")), SeedToken("old", "pi_0", Now0 - 1))

AnonCookie == signSessionCookie("authkey", "s_0", SeedTime + 3 + SessionTtl)

ExpiringCookie == signSessionCookie("authkey", "s_x", Now0 + 1)

InitAuth ==
  /\ store = AuthStore
  /\ req = [r \in Req |-> IdleReq]
  /\ clock = Now0
  /\ faults = 0
  /\ clickup = 0
  /\ env = Env(FALSE, TRUE)
  /\ scenario = [slots |-> NumSeqReq, sequential |-> TRUE, maxFaults |-> 0,
                 bodies |-> {}, sigs |-> {},
                 cookies |-> {SeedCookie, AnonCookie, ExpiringCookie},
                 ctypes |-> {}, supportInputs |-> {}, publishInputs |-> {},
                 emails |-> {"A@X.io", "n@x.io", "nobody"},
                 tokens |-> {NULL, "seed", "new", "old", "unknown"}]

NextAuth == \E r \in Req : AuthStep(r)

SpecAuth == InitAuth /\ [][NextAuth]_vars

\* Forged cookies at the session route and at both form routes, one
\* request at a time: the seeded cookie re-signed under a guessed key, the
\* signature of the cookie of s_0 carried over to the payload of s_1, and
\* the payload of the expiring cookie with its expiry moved out under the
\* old signature.  The seeded cookie itself is presented as well.
Resigned(cookie, key) ==
  [cookie EXCEPT !.sig = hmacSha256B64(key, cookie.payloadB64)]

Retargeted(cookie, other) == [cookie EXCEPT !.payloadB64 = other.payloadB64]

Extended(cookie, expiresAt) ==
  [cookie EXCEPT !.payloadB64.expiresAt = expiresAt]

ForgedCookies ==
  {Resigned(SeedCookie, "guess"), Retargeted(AnonCookie, SeedCookie),
   Extended(ExpiringCookie, Now0 + SessionTtl)}

InitForgery ==
  /\ store = AuthStore
  /\ req = [r \in Req |-> IdleReq]
  /\ clock = Now0
  /\ faults = 0
  /\ clickup = 0
  /\ env = Env(FALSE, TRUE)
  /\ scenario = [slots |-> NumSeqReq, sequential |-> TRUE, maxFaults |-> 0,
                 bodies |-> {}, sigs |-> {},
                 cookies |-> {SeedCookie} \cup ForgedCookies,
                 ctypes |-> {"application/json",
                             "application/x-www-form-urlencoded"},
                 supportInputs |-> {SupportInput("f_1")},
                 publishInputs |-> {PublishInput("f_2", "zeta")},
                 emails |-> {}, tokens |-> {}]

NextForgery ==
  \E r \in Req :
    \/ AuthSession(r)
    \/ SessionGet(r)
    \/ SupportMessage(r)
    \/ SupportGetSession(r)
    \/ SupportGetReceipt(r)
    \/ SupportPutReceipt(r)
    \/ SupportGetThread(r)
    \/ SupportPutThread(r)
    \/ PublishStep(r)

SpecForgery == InitForgery /\ [][NextForgery]_vars

\* Session checks and sign-outs of the seeded sessions handled concurrently,
\* with a put that may fail.
InitRevoke ==
  /\ store = AuthStore
  /\ req = [r \in Req |-> IdleReq]
  /\ clock = Now0
  /\ faults = 0
  /\ clickup = 0
  /\ env = Env(FALSE, TRUE)
  /\ scenario = [slots |-> NumDeliveries, sequential |-> FALSE,
                 maxFaults |-> MaxFaults,
                 bodies |-> {}, sigs |-> {},
                 cookies |-> {SeedCookie, AnonCookie},
                 ctypes |-> {}, supportInputs |-> {}, publishInputs |-> {},
                 emails |-> {}, tokens |-> {}]

NextRevoke ==
  \E r \in Req :
    \/ AuthSession(r)
    \/ SessionGet(r)
    \/ AuthLogout(r)
    \/ LogoutGetSession(r)
    \/ LogoutGetRecord(r)
    \/ LogoutPutRecord(r)

SpecRevoke == InitRevoke /\ [][NextRevoke]_vars

\* Concurrent GET /auth/confirm requests over the tokens of the seeded
\* store and the unused token "link", which stays unexpired throughout.
ConfirmStore ==
  Put(AuthStore, TokenKey(sha256Hex("link")),
      SeedToken("link", "pi_0", Now0 + TokenTtl - 1))

InitConfirmRace ==
  /\ store = ConfirmStore
  /\ req = [r \in Req |-> IdleReq]
  /\ clock = Now0
  /\ faults = 0
  /\ clickup = 0
  /\ env = Env(FALSE, TRUE)
  /\ scenario = [slots |-> NumDeliveries, sequential |-> FALSE,
                 maxFaults |-> 0,
                 bodies |-> {}, sigs |-> {},
                 cookies |-> {},
                 ctypes |-> {}, supportInputs |-> {}, publishInputs |-> {},
                 emails |-> {}, tokens |-> {"link", "seed", "new"}]

NextConfirmRace ==
  \E r \in Req :
    \/ AuthConfirm(r)
    \/ ConfirmGetToken(r)
    \/ ConfirmPutToken(r)
    \/ ConfirmPutSession(r)

SpecConfirmRace == InitConfirmRace /\ [][NextConfirmRace]_vars

\* Form submissions that carry a client-chosen accountId field, one request
\* at a time, under the sessions of two accounts: s_1 of pi_0 and s_2 of
\* pi_2.
IdentityStore ==
  Put(AuthStore, SessionKey("s_2"),
      SessionObj("s_2", "pi_2", SeedTime + 4, SeedTime + 4 + SessionTtl))

OtherCookie == signSessionCookie("authkey", "s_2", SeedTime + 4 + SessionTtl)

WithAccountId(input, accountId) ==
  [k \in DOMAIN input \cup {"accountId"} |->
     IF k = "accountId" THEN accountId ELSE input[k]]

InitIdentity ==
  /\ store = IdentityStore
  /\ req = [r \in Req |-> IdleReq]
  /\ clock = Now0
  /\ faults = 0
  /\ clickup = 0
  /\ env = Env(FALSE, TRUE)
  /\ scenario = [slots |-> NumSeqReq, sequential |-> TRUE, maxFaults |-> 0,
                 bodies |-> {}, sigs |-> {},
                 cookies |-> {SeedCookie, OtherCookie},
                 ctypes |-> {"application/json",
                             "application/x-www-form-urlencoded"},
                 supportInputs |->
                   {SupportInput("f_1"),
                    WithAccountId(SupportInput("f_1"), "pi_2")},
                 publishInputs |->
                   {PublishInput("f_2", "zeta"),
                    WithAccountId(PublishInput("f_3", "zeta"), "pi_2"),
                    WithAccountId(PublishInput("f_4", "mid"), "pi_0")},
                 emails |-> {}, tokens |-> {}]

NextIdentity ==
  \E r \in Req :
    \/ SupportMessage(r)
    \/ SupportGetSession(r)
    \/ SupportGetReceipt(r)
    \/ SupportPutReceipt(r)
    \/ SupportGetThread(r)
    \/ SupportPutThread(r)
    \/ PublishStep(r)

SpecIdentity == InitIdentity /\ [][NextIdentity]_vars

\* Support messages whose JSON object carries keys outside the allow-list,
\* utm_ keys and optional keys, one request at a time under the seeded
\* session.
WithField(input, key, value) ==
  [k \in DOMAIN input \cup {key} |-> IF k = key THEN value ELSE input[k]]

InitFields ==
  /\ store = SeededStore
  /\ req = [r \in Req |-> IdleReq]
  /\ clock = Now0
  /\ faults = 0
  /\ clickup = 0
  /\ env = Env(FALSE, TRUE)
  /\ scenario = [slots |-> NumSeqReq, sequential |-> TRUE, maxFaults |-> 0,
                 bodies |-> {}, sigs |-> {},
                 cookies |-> {SeedCookie},
                 ctypes |-> {"application/json"},
                 supportInputs |->
                   {SupportInput("f_1"),
                    WithField(SupportInput("f_2"), "utm_source", "ad"),
                    WithField(SupportInput("f_3"), "zzz", "1"),
                    WithField(SupportInput("f_3"), "accountId", "pi_2"),
                    WithField(WithField(SupportInput("f_4"), "zzz", "1"),
                              "accountId", "pi_2"),
                    WithField(WithField(SupportInput("f_5"), "zzz", "1"),
                              "relatedOrderId", "o_1")},
                 publishInputs |-> {}]

NextFields ==
  \E r \in Req :
    \/ SupportMessage(r)
    \/ SupportGetSession(r)
    \/ SupportGetReceipt(r)
    \/ SupportPutReceipt(r)
    \/ SupportGetThread(r)
    \/ SupportPutThread(r)

SpecFields == InitFields /\ [][NextFields]_vars

\* Requests of every method to listed and unlisted paths, one at a time,
\* over a store that also holds a support thread and a published page.
RoutesStore ==
  LET supportId == supportIdFromEventId("f_0")
      s1 == Put(SeededStore, SupportKey(supportId),
                NextSupport(None, SupportPayload(SupportInput("f_0")),
                            "pi_0", supportId, SeedTime + 5))
      s2 == Put(s1, PageKey("mid"),
                Profile("pi_0", "f_9", "mid", SeedTime + 6,
                        PublishInput("f_9", "mid")))
  IN  Put(s2, DirectoryKey, NextDirectory(None, "pi_0", "mid", SeedTime + 6))

InitRoutes ==
  /\ store = RoutesStore
  /\ req = [r \in Req |-> IdleReq]
  /\ clock = Now0
  /\ faults = 0
  /\ clickup = 0
  /\ env = Env(FALSE, TRUE)
  /\ scenario = [slots |-> NumSeqReq, sequential |-> TRUE, maxFaults |-> 0,
                 bodies |-> {}, sigs |-> {},
                 cookies |-> {SeedCookie},
                 ctypes |-> {}, supportInputs |-> {}, publishInputs |-> {},
                 emails |-> {}, tokens |-> {},
                 methods |-> {"GET", "POST", "OPTIONS", "PUT"},
                 paths |-> {"/health", "/support/status", "/directory",
                            "/auth/session", "/nope"},
                 supportIds |-> {NULL, supportIdFromEventId("f_0"),
                                 "SUP-none"}]

NextRoutes ==
  \E r \in Req :
    \/ Fetch(r)
    \/ SupportStatusGet(r)
    \/ DirectoryGet(r)
    \/ AuthSession(r)
    \/ SessionGet(r)

SpecRoutes == InitRoutes /\ [][NextRoutes]_vars

\* Publishes handled concurrently under the sessions of two accounts, over
\* a store without a directory index.
InitDirectory ==
  /\ store = IdentityStore
  /\ req = [r \in Req |-> IdleReq]
  /\ clock = Now0
  /\ faults = 0
  /\ clickup = 0
  /\ env = Env(FALSE, TRUE)
  /\ scenario = [slots |-> NumReq, sequential |-> FALSE, maxFaults |-> 0,
                 bodies |-> {}, sigs |-> {},
                 cookies |-> {SeedCookie, OtherCookie},
                 ctypes |-> {"application/x-www-form-urlencoded"},
                 supportInputs |-> {},
                 publishInputs |-> {PublishInput("f_1", "zeta"),
                                    PublishInput("f_2", "alpha"),
                                    PublishInput("f_3", "zeta")}]

NextDirectoryIndex == \E r \in Req : PublishStep(r)

SpecDirectory == InitDirectory /\ [][NextDirectoryIndex]_vars

\* A checkout webhook and a support message with projection enabled, the
\* sink configured or not, one request at a time, with calls that may fail.
InitProjection ==
  /\ store = SeededStore
  /\ req = [r \in Req |-> IdleReq]
  /\ clock = Now0
  /\ faults = 0
  /\ clickup = 0
  /\ env \in {Env(TRUE, c) : c \in BOOLEAN}
  /\ scenario = [slots |-> NumReq, sequential |-> TRUE,
                 maxFaults |-> MaxFaults,
                 bodies |-> {"b_cs1"}, sigs |-> {"valid"},
                 cookies |-> {SeedCookie},
                 ctypes |-> {"application/json"},
                 supportInputs |-> {SupportInput("f_1")},
                 publishInputs |-> {}]

NextProjection ==
  \E r \in Req :
    \/ StripeWebhook(r)
    \/ WebhookGetReceipt(r)
    \/ WebhookPutReceipt(r)
    \/ CheckoutGetAccount(r)
    \/ CheckoutPutAccount(r)
    \/ CheckoutPutIndex(r)
    \/ CheckoutPutEmailIndex(r)
    \/ CheckoutProject(r)
    \/ CheckoutProjectPut(r)
    \/ CheckoutFailedPut(r)
    \/ SupportStep(r)

SpecProjection == InitProjection /\ [][NextProjection]_vars

\* Well-formed and malformed requests to every route, one at a time: bad
\* signatures and bodies, forged cookies, wrong content types, invalid
\* payloads, unknown ids, unlisted paths and methods.
InitErrors ==
  /\ store = SeededStore
  /\ req = [r \in Req |-> IdleReq]
  /\ clock = Now0
  /\ faults = 0
  /\ clickup = 0
  /\ env = Env(FALSE, TRUE)
  /\ scenario = [slots |-> NumReq, sequential |-> TRUE, maxFaults |-> 0,
                 bodies |-> {"b_cs1", "b_inv", "b_noid", "b_garbage"},
                 sigs |-> {"valid", "forged", "none"},
                 cookies |-> {SeedCookie, Resigned(SeedCookie, "guess")},
                 ctypes |-> {"application/json",
                             "application/x-www-form-urlencoded"},
                 supportInputs |-> {SupportInput("f_1"), NotJson,
                                    WithField(SupportInput("f_2"), "zzz", "1")},
                 publishInputs |-> {PublishInput("f_3", "zeta"),
                                    PublishInput("f_4", " ")},
                 emails |-> {"A@X.io", "nobody"}, tokens |-> {},
                 methods |-> {"GET", "PUT"},
                 paths |-> {"/support/status", "/nope"},
                 supportIds |-> {NULL, "SUP-none"}]

NextErrors ==
  \E r \in Req :
    \/ StripeWebhook(r)
    \/ WebhookGetReceipt(r)
    \/ WebhookPutReceipt(r)
    \/ CheckoutGetAccount(r)
    \/ CheckoutPutAccount(r)
    \/ CheckoutPutIndex(r)
    \/ CheckoutPutEmailIndex(r)
    \/ SupportMessage(r)
    \/ SupportGetSession(r)
    \/ SupportGetReceipt(r)
    \/ SupportPutReceipt(r)
    \/ SupportGetThread(r)
    \/ SupportPutThread(r)
    \/ PublishStep(r)
    \/ Fetch(r)
    \/ SupportStatusGet(r)
    \/ AuthLogin(r)
    \/ LoginResolve(r)
    \/ LoginPutToken(r)

SpecErrors == InitErrors /\ [][NextErrors]_vars

\* Two completion events of one account delivered concurrently, projection
\* enabled and the sink configured, every call answered.
InitTasks ==
  /\ store = EmptyStore
  /\ req = [r \in Req |-> IdleReq]
  /\ clock = Now0
  /\ faults = 0
  /\ clickup = 0
  /\ env = Env(TRUE, TRUE)
  /\ scenario = [slots |-> NumReq, sequential |-> FALSE, maxFaults |-> 0,
                 bodies |-> {"b_cs1", "b_cs2"},
                 sigs |-> {"valid"},
                 cookies |-> {}, ctypes |-> {}, supportInputs |-> {},
                 publishInputs |-> {}]

NextTasks ==
  \E r \in Req :
    \/ StripeWebhook(r)
    \/ WebhookGetReceipt(r)
    \/ WebhookPutReceipt(r)
    \/ CheckoutGetAccount(r)
    \/ CheckoutPutAccount(r)
    \/ CheckoutPutIndex(r)
    \/ CheckoutPutEmailIndex(r)
    \/ CheckoutProject(r)
    \/ CheckoutProjectPut(r)

SpecTasks == InitTasks /\ [][NextTasks]_vars

\* The bucket after the completion event evt_cs1 of account pi_1.
PaidStore ==
  LET evt == ParseBody("b_cs1").evt
      s1 == Put(EmptyStore, ReceiptKey("stripe", evt.id),
                [source |-> "stripe", body |-> "b_cs1"])
      s2 == Put(s1, AccountKey("pi_1"),
                CheckoutNextAccount(None, evt, SeedTime))
      s3 == Put(s2, IndexKey("pi_1"), IndexEntry("pi_1", SeedTime, evt))
  IN  Put(s3, EmailIndexKey(evt.email),
          EmailIndexEntry("pi_1", SeedTime, evt.email))

\* The confirmation and the charge of a paid account, delivered
\* concurrently.
InitLostUpdate ==
  /\ store = PaidStore
  /\ req = [r \in Req |-> IdleReq]
  /\ clock = Now0
  /\ faults = 0
  /\ clickup = 0
  /\ env = Env(FALSE, TRUE)
  /\ scenario = [slots |-> NumReq, sequential |-> FALSE, maxFaults |-> 0,
                 bodies |-> {"b_pi1", "b_ch1"},
                 sigs |-> {"valid"},
                 cookies |-> {}, ctypes |-> {}, supportInputs |-> {},
                 publishInputs |-> {}]

NextLostUpdate ==
  \E r \in Req :
    \/ StripeWebhook(r)
    \/ WebhookGetReceipt(r)
    \/ WebhookPutReceipt(r)
    \/ PaymentIntentGetIndex(r)
    \/ PaymentIntentGetAccount(r)
    \/ PaymentIntentPutAccount(r)
    \/ ChargeGetIndex(r)
    \/ ChargeGetAccount(r)
    \/ ChargePutAccount(r)

SpecLostUpdate == InitLostUpdate /\ [][NextLostUpdate]_vars

\* Deliveries of a completion event and of the confirmation that follows it,
\* concurrently: a delivery that passed the receipt gate before the event
\* was first applied applies it again later.
InitReplay ==
  /\ store = EmptyStore
  /\ req = [r \in Req |-> IdleReq]
  /\ clock = Now0
  /\ faults = 0
  /\ clickup = 0
  /\ env = Env(FALSE, TRUE)
  /\ scenario = [slots |-> NumDeliveries, sequential |-> FALSE,
                 maxFaults |-> 0,
                 bodies |-> {"b_cs1", "b_pi1"},
                 sigs |-> {"valid"},
                 cookies |-> {}, ctypes |-> {}, supportInputs |-> {},
                 publishInputs |-> {}]

NextReplay ==
  \E r \in Req :
    \/ StripeWebhook(r)
    \/ WebhookGetReceipt(r)
    \/ WebhookPutReceipt(r)
    \/ CheckoutGetAccount(r)
    \/ CheckoutPutAccount(r)
    \/ CheckoutPutIndex(r)
    \/ CheckoutPutEmailIndex(r)
    \/ PaymentIntentGetIndex(r)
    \/ PaymentIntentGetAccount(r)
    \/ PaymentIntentPutAccount(r)

SpecReplay == InitReplay /\ [][NextReplay]_vars

\* Requests to every route under a complete configuration and under
\* configurations that lack the bucket binding, the signing key or the
\* webhook secret, one request at a time.
InitConfig ==
  /\ store = SeededStore
  /\ req = [r \in Req |-> IdleReq]
  /\ clock = Now0
  /\ faults = 0
  /\ clickup = 0
  /\ env \in {Env(FALSE, TRUE),
              [Env(FALSE, TRUE) EXCEPT !.R2_VIRTUAL_LAUNCH = FALSE],
              [Env(FALSE, TRUE) EXCEPT !.AUTH_SIGNING_KEY = ""],
              [Env(FALSE, TRUE) EXCEPT !.STRIPE_WEBHOOK_SECRET = ""]}
  /\ scenario = [slots |-> NumReq, sequential |-> TRUE, maxFaults |-> 0,
                 bodies |-> {"b_cs1", "b_garbage"},
                 sigs |-> {"valid", "none"},
                 cookies |-> {SeedCookie},
                 ctypes |-> {"application/json"},
                 supportInputs |-> {SupportInput("f_1")},
                 publishInputs |-> {},
                 emails |-> {"a@x.io"}, tokens |-> {},
                 methods |-> {"GET", "POST", "PUT"},
                 paths |-> {"/health", "/stripe/webhook", "/nope"},
                 supportIds |-> {NULL}]

NextConfig ==
  \E r \in Req :
    \/ Fetch(r)
    \/ StripeWebhook(r)
    \/ WebhookGetReceipt(r)
    \/ WebhookPutReceipt(r)
    \/ CheckoutGetAccount(r)
    \/ CheckoutPutAccount(r)
    \/ CheckoutPutIndex(r)
    \/ CheckoutPutEmailIndex(r)
    \/ SupportMessage(r)
    \/ SupportGetSession(r)
    \/ SupportGetReceipt(r)
    \/ SupportPutReceipt(r)
    \/ SupportGetThread(r)
    \/ SupportPutThread(r)
    \/ AuthLogin(r)
    \/ LoginResolve(r)
    \/ LoginPutToken(r)
    \/ AuthSession(r)
    \/ SessionGet(r)

SpecConfig == InitConfig /\ [][NextConfig]_vars

\* The store without the object at key k.
Without(s, k) == [x \in (DOMAIN s) \ {k} |-> s[x]]

\* Logins with one email on two stores that differ only in the email index
\* entry of that email, one request at a time.
InitLogin ==
  /\ store \in {SeededStore, Without(SeededStore, EmailIndexKey("a@x.io"))}
  /\ req = [r \in Req |-> IdleReq]
  /\ clock = Now0
  /\ faults = 0
  /\ clickup = 0
  /\ env = Env(FALSE, TRUE)
  /\ scenario = [slots |-> NumSeqReq, sequential |-> TRUE, maxFaults |-> 0,
                 bodies |-> {}, sigs |-> {},
                 cookies |-> {SeedCookie},
                 ctypes |-> {}, supportInputs |-> {}, publishInputs |-> {},
                 emails |-> {"A@X.io", "a@x.io", "nobody"},
                 tokens |-> {NULL, "unknown"}]

NextLogin ==
  \E r \in Req :
    \/ AuthLogin(r)
    \/ LoginResolve(r)
    \/ LoginPutToken(r)
    \/ AuthConfirm(r)
    \/ ConfirmGetToken(r)
    \/ ConfirmPutToken(r)
    \/ ConfirmPutSession(r)
    \/ AuthSession(r)
    \/ SessionGet(r)

SpecLogin == InitLogin /\ [][NextLogin]_vars

\* The bucket after a POST /auth/login with an address that had no index
\* entry: the unused token "anon" carries no account.
PendingStore ==
  Put(SeededStore, TokenKey(sha256Hex("anon")),
      [SeedToken("anon", NULL, Now0 + TokenTtl - 10)
         EXCEPT !.email = "b@x.io"])

\* Logins and confirmations for an address without an account, a completion
\* event that creates the account and the index entry of that address, and
\* requests that present the resulting cookie; one request at a time.
InitBinding ==
  /\ store = PendingStore
  /\ req = [r \in Req |-> IdleReq]
  /\ clock = Now0
  /\ faults = 0
  /\ clickup = 0
  /\ env = Env(FALSE, TRUE)
  /\ scenario = [slots |-> NumSeqReq, sequential |-> TRUE, maxFaults |-> 0,
                 bodies |-> {"b_cs2"}, sigs |-> {"valid"},
                 cookies |-> {SeedCookie},
                 ctypes |-> {"application/json"},
                 supportInputs |-> {SupportInput("f_1")},
                 publishInputs |-> {},
                 emails |-> {"b@x.io"},
                 tokens |-> {"anon"}]

NextBinding ==
  \E r \in Req :
    \/ StripeWebhook(r)
    \/ WebhookGetReceipt(r)
    \/ WebhookPutReceipt(r)
    \/ CheckoutGetAccount(r)
    \/ CheckoutPutAccount(r)
    \/ CheckoutPutIndex(r)
    \/ CheckoutPutEmailIndex(r)
    \/ AuthLogin(r)
    \/ LoginResolve(r)
    \/ LoginPutToken(r)
    \/ AuthConfirm(r)
    \/ ConfirmGetToken(r)
    \/ ConfirmPutToken(r)
    \/ ConfirmPutSession(r)
    \/ AuthSession(r)
    \/ SessionGet(r)
    \/ SupportMessage(r)
    \/ SupportGetSession(r)
    \/ SupportGetReceipt(r)
    \/ SupportPutReceipt(r)
    \/ SupportGetThread(r)
    \/ SupportPutThread(r)

SpecBinding == InitBinding /\ [][NextBinding]_vars

\* The two forms used with the same event ids, one request at a time, every
\* store call answered.
InitForms ==
  /\ store = SeededStore
  /\ req = [r \in Req |-> IdleReq]
  /\ clock = Now0
  /\ faults = 0
  /\ clickup = 0
  /\ env = Env(FALSE, TRUE)
  /\ scenario = [slots |-> NumSeqReq, sequential |-> TRUE, maxFaults |-> 0,
                 bodies |-> {}, sigs |-> {},
                 cookies |-> {SeedCookie},
                 ctypes |-> {"application/json",
                             "application/x-www-form-urlencoded"},
                 supportInputs |-> {SupportInput("f_1"), SupportInput("f_2")},
                 publishInputs |-> {PublishInput("f_1", "zeta"),
                                    PublishInput("f_2", "alpha")}]

NextForms ==
  \E r \in Req :
    \/ SupportMessage(r)
    \/ SupportGetSession(r)
    \/ SupportGetReceipt(r)
    \/ SupportPutReceipt(r)
    \/ SupportGetThread(r)
    \/ SupportPutThread(r)
    \/ PublishStep(r)

SpecForms == InitForms /\ [][NextForms]_vars

\* A sender that redelivers one correctly signed completion event, each
\* delivery after the answer to the one before, while a bounded number of
\* store calls fail.  Every handler that can take a step takes it.
InitRetry ==
  /\ store = EmptyStore
  /\ req = [r \in Req |-> IdleReq]
  /\ clock = Now0
  /\ faults = 0
  /\ clickup = 0
  /\ env \in {Env(p, c) : p, c \in BOOLEAN}
  /\ scenario = [slots |-> NumSeqReq, sequential |-> TRUE,
                 maxFaults |-> MaxFaults,
                 bodies |-> {"b_cs1"}, sigs |-> {"valid"},
                 cookies |-> {}, ctypes |-> {}, supportInputs |-> {},
                 publishInputs |-> {}]

NextRetry ==
  \E r \in Req :
    \/ StripeWebhook(r)
    \/ WebhookGetReceipt(r)
    \/ WebhookPutReceipt(r)
    \/ CheckoutGetAccount(r)
    \/ CheckoutPutAccount(r)
    \/ CheckoutPutIndex(r)
    \/ CheckoutPutEmailIndex(r)
    \/ CheckoutProject(r)
    \/ CheckoutProjectPut(r)
    \/ CheckoutFailedPut(r)

SpecRetry == InitRetry /\ [][NextRetry]_vars /\ WF_vars(NextRetry)

(***************************************************************************)
(* Properties.  They read the history each request keeps (ops, after,      *)
(* receivedAt) next to the store and the responses.                        *)
(***************************************************************************)
Done(r) == req[r].pc = "done"

\* The request reached its route's receipt gate: its event id is known.
Gated(r) ==
  IF req[r].route = "webhook" THEN req[r].evt # NoEvt
  ELSE req[r].route \in {"support", "publish"} /\ req[r].eventId # ""

\* The receipt key of the (source, eventId) a gated request carries.
ReceiptKeyOf(r) ==
  IF req[r].route = "webhook" THEN ReceiptKey("stripe", req[r].evt.id)
  ELSE ReceiptKey("forms", req[r].eventId)

\* Positions of the log of r at which r did `op`, and at which it did so on
\* `key`.
Did(r, op) == {i \in DOMAIN req[r].ops : req[r].ops[i].op = op}
DidOn(r, op, key) == {i \in DOMAIN req[r].ops : req[r].ops[i] = Op(op, key)}

\* r touched the store or the sink: a put or a projection call, attempted
\* or completed.
Wrote(r) ==
  \E i \in DOMAIN req[r].ops :
    req[r].ops[i].op \in {"put", "putfail", "project", "projectfail"}

\* r2 is a submission of the event of r1 made after r1 was answered, and r1
\* put the receipt.
Resubmits(r1, r2) ==
  /\ Done(r1) /\ Gated(r1) /\ Gated(r2)
  /\ r1 \in req[r2].after
  /\ ReceiptKeyOf(r1) = ReceiptKeyOf(r2)
  /\ DidOn(r1, "put", ReceiptKeyOf(r1)) # {}

Deduped(r) ==
  /\ req[r].resp.status = 200 /\ req[r].resp.ok /\ req[r].resp.deduped
  /\ ~Wrote(r)

\* C1: when the same (source, eventId) is submitted again after a request
\* that put its receipt was answered, the later request answers 200 with
\* deduped:true and makes no put and no projection call; the receipt was put
\* exactly once and only the first request mutated anything for that event.
C1_SequentialIdempotency ==
  \A r1, r2 \in Req :
    (Resubmits(r1, r2) /\ Done(r2)) =>
      /\ Deduped(r2)
      /\ Has(store, ReceiptKeyOf(r1))
      /\ Cardinality(DidOn(r1, "put", ReceiptKeyOf(r1))) = 1
      /\ \A q \in Req \ {r1} :
           (Gated(q) /\ ReceiptKeyOf(q) = ReceiptKeyOf(r1)) =>
             Did(q, "put") = {} /\ Did(q, "project") = {}

\* A webhook event was delivered again after its first delivery had put the
\* receipt and the account and had projected the account.
C1_Witness ==
  \E r1, r2 \in Req :
    /\ Resubmits(r1, r2) /\ Done(r2)
    /\ req[r1].route = "webhook" /\ req[r2].route = "webhook"
    /\ \E i \in Did(r1, "put") : IsCanonicalKey(req[r1].ops[i].key)
    /\ \E i \in Did(r1, "project") : TRUE

\* C2: for every (source, eventId) the receipt key is put at most once,
\* whatever the interleaving of the requests that carry the event.
C2_ReceiptPutAtMostOnce ==
  \A r1, r2 \in Req :
    (Gated(r1) /\ Gated(r2) /\ ReceiptKeyOf(r1) = ReceiptKeyOf(r2)) =>
      LET n1 == Cardinality(DidOn(r1, "put", ReceiptKeyOf(r1)))
          n2 == Cardinality(DidOn(r2, "put", ReceiptKeyOf(r2)))
      IN  IF r1 = r2 THEN n1 <= 1 ELSE n1 + n2 <= 1

\* C3: within one request every put to a canonical key comes after the
\* request's own receipt put, a receipt put on the webhook route is made only
\* for a request whose signature verifies, and every projection call comes
\* after a canonical put.
C3_WriteOrder ==
  \A r \in Req :
    /\ \A i \in DOMAIN req[r].ops :
         LET o == req[r].ops[i] IN
         /\ (o.op \in {"put", "putfail"} /\ IsCanonicalKey(o.key)) =>
              \E j \in DidOn(r, "put", ReceiptKeyOf(r)) : j < i
         /\ (o.op \in {"put", "putfail"} /\ IsReceiptKey(o.key)
               /\ req[r].route = "webhook") =>
              \E j \in Did(r, "verified") : j < i
         /\ (o.op \in {"project", "projectfail"}) =>
              \E j \in Did(r, "put") :
                j < i /\ IsCanonicalKey(req[r].ops[j].key)
    /\ (req[r].route = "webhook" /\ Did(r, "put") \cup Did(r, "putfail") # {})
         => verifyStripeSignature(req[r].body, env.STRIPE_WEBHOOK_SECRET,
              req[r].sig, toleranceSeconds, req[r].receivedAt).ok

\* A request has put its receipt, then canonical objects, then projected.
C3_Witness ==
  \E r \in Req :
    /\ Done(r) /\ req[r].route = "webhook"
    /\ \E i \in DidOn(r, "put", ReceiptKeyOf(r)) :
         \E j \in DidOn(r, "put", AccountKey(req[r].accountId)) :
           \E k \in Did(r, "project") : i < j /\ j < k

\* The header as the sender wrote it: the last non-empty t item is the
\* timestamp the header carries, the non-empty v1 items are its candidates.
TItems(header) ==
  {i \in DOMAIN header : header[i].k = "t" /\ header[i].v.kind # "empty"}

LastT(header) ==
  header[CHOOSE i \in TItems(header) : \A j \in TItems(header) : j <= i].v

CarriesTimestamp(header) ==
  /\ TItems(header) # {}
  /\ LastT(header).kind = "num"
  /\ LastT(header).n # 0

Candidates(header) ==
  {header[i].v : i \in {j \in DOMAIN header :
                          header[j].k = "v1" /\ header[j].v.kind # "empty"}}

\* The reason of the first failing check, "" when every check passes.
FirstFailingCheck(rawBody, secret, header, now) ==
  IF ~CarriesTimestamp(header) THEN "Missing timestamp"
  ELSE IF Candidates(header) = {} THEN "Missing v1 signature"
  ELSE IF Abs(now - LastT(header).n) > 300 THEN "Timestamp outside tolerance"
  ELSE IF HmacHex(secret, LastT(header).n, rawBody) \notin Candidates(header)
    THEN "Signature mismatch"
  ELSE ""

\* A webhook request that arrived with a stripe-signature header.
Signed(r) == req[r].route = "webhook" /\ req[r].sig # <<>>

\* C4: verifyStripeSignature returns ok exactly when the header carries a
\* timestamp t (a non-zero number) and at least one v1 value, |now - t| <= 300
\* and the MAC over "t.rawBody" is one of the v1 values; otherwise its reason
\* is that of the first failing check, and the route answers 400 with that
\* reason without any put.
C4_SignatureVerdict ==
  \A r \in Req :
    Signed(r) =>
      LET verdict == verifyStripeSignature(req[r].body,
                       env.STRIPE_WEBHOOK_SECRET, req[r].sig,
                       toleranceSeconds, req[r].receivedAt)
          failing == FirstFailingCheck(req[r].body, env.STRIPE_WEBHOOK_SECRET,
                                       req[r].sig, req[r].receivedAt)
      IN  /\ verdict.ok <=> failing = ""
          /\ verdict.reason = failing
          /\ ~verdict.ok =>
               /\ Done(r)
               /\ req[r].resp.status = 400
               /\ req[r].resp.error = "Invalid Stripe signature"
               /\ req[r].resp.reason = failing
               /\ req[r].ops = <<>>
               /\ store = EmptyStore
          /\ verdict.ok => Did(r, "verified") # {}

\* A header with two candidates of which only the second matches has been
\* accepted and the request went on to put its receipt.
C4_Witness ==
  \E r \in Req :
    /\ Signed(r) /\ Done(r)
    /\ Len(req[r].sig) = 3
    /\ req[r].sig[1].k = "t" /\ req[r].sig[1].v.kind = "num"
    /\ req[r].sig[2].k = "v1" /\ req[r].sig[3].k = "v1"
    /\ req[r].sig[2].v # HmacHex("whsec", req[r].sig[1].v.n, req[r].body)
    /\ req[r].sig[3].v = HmacHex("whsec", req[r].sig[1].v.n, req[r].body)
    /\ DidOn(r, "put", ReceiptKeyOf(r)) # {}

\* The header of a correctly signed request: a timestamp and the MAC, under
\* the endpoint's secret, of that timestamp and the body.
CorrectlySigned(r) ==
  /\ Signed(r)
  /\ Len(req[r].sig) = 2
  /\ req[r].sig[1].k = "t" /\ req[r].sig[1].v.kind = "num"
  /\ req[r].sig[2] = Item("v1", HmacHex(env.STRIPE_WEBHOOK_SECRET,
                                        req[r].sig[1].v.n, req[r].body))

\* C5: a correctly signed request whose timestamp is exactly 300 seconds
\* from the time of receipt, on either side, passes the signature check; at
\* 301 seconds it is answered 400 with reason 'Timestamp outside tolerance'.
C5_ToleranceBoundary ==
  \A r \in Req :
    CorrectlySigned(r) =>
      LET age == Abs(req[r].receivedAt - req[r].sig[1].v.n) IN
      /\ age = 300 =>
           /\ Did(r, "verified") # {}
           /\ req[r].resp.error # "Invalid Stripe signature"
      /\ age = 301 =>
           /\ Done(r)
           /\ req[r].resp.status = 400
           /\ req[r].resp.reason = "Timestamp outside tolerance"
           /\ req[r].ops = <<>>

\* A request signed exactly 300 seconds before it was received has been
\* accepted and answered 200.
C5_Witness ==
  \E r \in Req :
    /\ CorrectlySigned(r) /\ Done(r)
    /\ req[r].receivedAt - req[r].sig[1].v.n = 300
    /\ req[r].resp.status = 200

\* r is a webhook delivery whose receipt put succeeded and whose following
\* put of the account failed.
ReceiptThenAccountFault(r) ==
  /\ req[r].route = "webhook" /\ Gated(r)
  /\ DidOn(r, "put", ReceiptKeyOf(r)) # {}
  /\ DidOn(r, "putfail", AccountKey(req[r].accountId)) # {}
  /\ DidOn(r, "put", AccountKey(req[r].accountId)) = {}

\* C6: when the receipt put of a webhook delivery succeeded and the account
\* put that follows failed, the receipt stays in the store, every later
\* delivery of the event is answered deduped:true without any put, and no
\* delivery of the event ever puts the account.
C6_FaultAfterReceipt ==
  \A r1 \in Req :
    ReceiptThenAccountFault(r1) =>
      /\ Has(store, ReceiptKeyOf(r1))
      /\ \A r2 \in Req \ {r1} :
           (Gated(r2) /\ ReceiptKeyOf(r2) = ReceiptKeyOf(r1)) =>
             /\ Did(r2, "put") = {}
             /\ (Done(r2) /\ r1 \in req[r2].after) => Deduped(r2)

\* A delivery failed on its account put and a later delivery of the same
\* event has been answered.
C6_Witness ==
  \E r1, r2 \in Req :
    /\ ReceiptThenAccountFault(r1) /\ req[r1].resp.status = 500
    /\ Gated(r2) /\ ReceiptKeyOf(r2) = ReceiptKeyOf(r1)
    /\ r1 \in req[r2].after /\ Done(r2)
    /\ ~Has(store, AccountKey(req[r1].accountId))

\* C7: on the receipt-gated routes a request that has put its receipt is
\* answered 200 with ok:true, whatever step fails afterwards.
C7_SuccessAfterReceipt ==
  \A r \in Req :
    (Done(r) /\ Gated(r) /\ DidOn(r, "put", ReceiptKeyOf(r)) # {}) =>
      req[r].resp.status = 200 /\ req[r].resp.ok

\* C8: the step of a payment_intent.succeeded or charge.succeeded delivery
\* that looks up the Correlation Index and finds no entry answers 200 with
\* ok:true and a note; the delivery's receipt is in the store, the store is
\* left as it is and the delivery has made no put other than its receipt.
C8_CorrelationGap ==
  [][\A r \in Req :
       (/\ req[r].pc \in {"pi_idx", "ch_idx"}
        /\ req'[r] # req[r]
        /\ ~Has(store, IndexKey(req[r].evt.payment_intent))) =>
          /\ req'[r].pc = "done"
          /\ req'[r].resp.status = 200 /\ req'[r].resp.ok
          /\ req'[r].resp.note # ""
          /\ store' = store
          /\ Has(store', ReceiptKeyOf(r))
          /\ \A i \in DOMAIN req'[r].ops :
               req'[r].ops[i].op \in {"put", "putfail"} =>
                 req'[r].ops[i].key = ReceiptKeyOf(r)]_vars

\* A confirmation event was answered with the note while the store held no
\* index entry for its payment intent.
C8_Witness ==
  \E r \in Req :
    /\ Done(r) /\ req[r].evt.type \in {"payment_intent.succeeded",
                                       "charge.succeeded"}
    /\ req[r].resp.note = "Missing correlation index"
    /\ Has(store, ReceiptKeyOf(r))
    /\ ~Has(store, IndexKey(req[r].evt.payment_intent))

\* r is a delivery of payment_intent.succeeded that found no index entry.
Dropped(r) ==
  /\ Done(r) /\ req[r].evt.type = "payment_intent.succeeded"
  /\ req[r].resp.note = "Missing correlation index"

\* C9: once a delivery of a confirmation event was dropped for want of the
\* index entry, no delivery of that event ever puts the account.
C9_DroppedForGood ==
  \A r1, r2 \in Req :
    (Dropped(r1) /\ Gated(r2) /\ ReceiptKeyOf(r2) = ReceiptKeyOf(r1)) =>
      \A i \in Did(r2, "put") : req[r2].ops[i].key[1] # "accounts"

\* r is a delivery of checkout.session.completed with a payment intent id
\* that handleCheckoutSessionCompleted has answered.
Completed(r) ==
  /\ Done(r) /\ req[r].route = "webhook"
  /\ req[r].evt.type = "checkout.session.completed"
  /\ Truthy(req[r].evt.payment_intent)
  /\ req[r].resp.status = 200 /\ ~req[r].resp.deduped

\* C10: once handleCheckoutSessionCompleted has answered a delivery, the
\* store holds the event's receipt, the account of the accountId derived from
\* the event (the payment intent id) with subscription.active = true, and
\* the Correlation Index entry of the payment intent with that accountId.
C10_CompletionPostcondition ==
  \A r \in Req :
    Completed(r) =>
      LET accountId == req[r].evt.payment_intent IN
      /\ req[r].resp.accountId = accountId
      /\ Has(store, ReceiptKeyOf(r))
      /\ Has(store, AccountKey(accountId))
      /\ store[AccountKey(accountId)].accountId = accountId
      /\ store[AccountKey(accountId)].subscription.active
      /\ Has(store, IndexKey(req[r].evt.payment_intent))
      /\ store[IndexKey(req[r].evt.payment_intent)].accountId = accountId

\* A completion event has been answered while a confirmation event of the
\* same payment intent was handled next to it and put the account as well.
C10_Witness ==
  \E r, q \in Req :
    /\ Completed(r)
    /\ Done(q) /\ req[q].evt.type = "payment_intent.succeeded"
    /\ DidOn(q, "put", AccountKey(req[r].evt.payment_intent)) # {}

\* The fields an event carries for the account, by event type: what each
\* handler reads from evt.data.object (NULL: the event has no such field).
Incoming(evt) ==
  LET none == [fullName |-> NULL, primaryEmail |-> NULL, customerId |-> NULL,
               paymentLink |-> NULL, paymentStatus |-> NULL,
               receiptUrl |-> NULL, sessionId |-> NULL]
  IN  CASE evt.type = "checkout.session.completed" ->
             [none EXCEPT !.fullName = evt.name, !.primaryEmail = evt.email,
                          !.customerId = evt.customer,
                          !.paymentLink = evt.payment_link,
                          !.paymentStatus = evt.status,
                          !.sessionId = evt.session]
        [] evt.type = "payment_intent.succeeded" ->
             [none EXCEPT !.paymentStatus = evt.status]
        [] evt.type = "charge.succeeded" ->
             [none EXCEPT !.paymentStatus = evt.status,
                          !.receiptUrl = evt.receipt_url]
        [] OTHER -> none

\* The seven merged fields of a stored account.
Merged(account) ==
  [fullName |-> account.fullName, primaryEmail |-> account.primaryEmail,
   customerId |-> account.stripe.customerId,
   paymentLink |-> account.stripe.paymentLink,
   paymentStatus |-> account.stripe.paymentStatus,
   receiptUrl |-> account.stripe.receiptUrl,
   sessionId |-> account.stripe.sessionId]

MergedFields == DOMAIN Incoming(NoEvt)

\* r is about to put the account it merged, over an account that is stored.
UpsertsStored(r) ==
  /\ req[r].pc \in {"cs_put", "pi_put", "ch_put"}
  /\ Has(store, AccountKey(req[r].accountId))

\* C11: when a payment handler puts an account over a stored one, each
\* merged field keeps the stored value if the event carries no value for it
\* (absent, null or empty) and takes the event's value otherwise.
C11_MergePolicy ==
  [][\A r \in Req :
       (UpsertsStored(r) /\ req'[r].pc # req[r].pc) =>
         LET key == AccountKey(req[r].accountId)
             old == Merged(store[key])
             new == Merged(store'[key])
             inc == Incoming(req[r].evt)
         IN  \A f \in MergedFields :
               new[f] = IF inc[f] \in {NULL, ""} THEN old[f] ELSE inc[f]]_vars

\* An account holds a field kept from an earlier event next to a field
\* replaced by a later one: the name of the first completion event is gone,
\* its payment link is kept, and the receipt URL of a charge event has
\* survived a later completion event.
C11_Witness ==
  \E r1, r2, r3 \in Req :
    /\ Done(r1) /\ Done(r2) /\ Done(r3)
    /\ req[r1].body = "b_cs2" /\ req[r2].body = "b_ch1"
    /\ req[r3].body = "b_cs1"
    /\ r1 \in req[r2].after /\ r2 \in req[r3].after
    /\ Has(store, AccountKey("pi_1"))
    /\ store[AccountKey("pi_1")].fullName = "Ann"
    /\ store[AccountKey("pi_1")].stripe.paymentLink = "plink_2"
    /\ store[AccountKey("pi_1")].stripe.receiptUrl = "https://r/1"

\* C12: an account stored with subscription.active = true stays stored with
\* active = true and with the activatedAt it has, whatever request writes it
\* next.
C12_SubscriptionOneWay ==
  [][\A k \in DOMAIN store :
       (k[1] = "accounts" /\ store[k].subscription.active) =>
         /\ k \in DOMAIN store'
         /\ store'[k].subscription.active
         /\ store'[k].subscription.activatedAt
              = store[k].subscription.activatedAt]_vars

\* Keys of the canonical objects that carry createdAt: accounts, support
\* threads and profile pages.
HasCreatedAt(k) == k[1] \in {"accounts", "support", "va/pages"}

\* C13: a write to the key of a stored account, support thread or profile
\* page stores the createdAt the object already has.
C13_CreatedAtImmutable ==
  [][\A k \in DOMAIN store :
       HasCreatedAt(k) =>
         k \in DOMAIN store' /\ store'[k].createdAt = store[k].createdAt]_vars

\* The signature part of the request's cookie is not the MAC of its payload
\* part under AUTH_SIGNING_KEY.
Tampered(r) ==
  /\ req[r].cookie.parts = 2
  /\ req[r].cookie.sig
       # hmacSha256B64(env.AUTH_SIGNING_KEY, req[r].cookie.payloadB64)

Puts(r) ==
  {i \in 1..Len(req[r].ops) : req[r].ops[i].op \in {"put", "putfail"}}

\* C14: a request that presents a cookie whose signature part is not the
\* MAC of its payload part is answered at once: GET /auth/session reports
\* authenticated false, both form routes answer 401 and have put nothing,
\* whatever session records the store holds.
C14_CookieTamper ==
  \A r \in Req :
    (req[r].route \in {"session", "support", "publish"} /\ Tampered(r)) =>
      /\ Done(r)
      /\ Puts(r) = {}
      /\ req[r].route = "session" =>
           (req[r].resp.status = 200 /\ ~req[r].resp.authenticated)
      /\ req[r].route \in {"support", "publish"} => req[r].resp.status = 401

\* The signature of another session's cookie over the payload of the live
\* session s_1 was presented to all three routes.
C14_Witness ==
  \A route \in {"session", "support", "publish"} :
    \E r \in Req :
      /\ Done(r)
      /\ req[r].route = route
      /\ req[r].cookie = Retargeted(AnonCookie, SeedCookie)
      /\ Get(store, SessionKey("s_1")) # None

\* The conditions of an authenticated request, read off the cookie it
\* presented and the store at the time requireSession answers.
SessionConditions(r) ==
  LET cookie == req[r].cookie
      obj == Get(store, SessionKey(cookie.payloadB64.sessionId))
  IN  /\ ~Tampered(r)
      /\ cookie.parts = 2
      /\ cookie.payloadB64.expiresAt >= req[r].receivedAt
      /\ obj # None
      /\ obj[1].revokedAt = 0
      /\ obj[1].expiresAt >= clock
      /\ obj[1].accountId # NULL
      /\ req'[r].session.accountId = obj[1].accountId

\* C15: a request is treated as authenticated only if, at that time, the
\* signature of its cookie verifies, the expiry in the cookie is not past,
\* the session record exists, has no revokedAt, has an expiresAt that is
\* not past and carries a string accountId.
C15_AuthenticatedOnlyIf ==
  [][\A r \in Req :
       (~req[r].session.authenticated /\ req'[r].session.authenticated)
         => SessionConditions(r)]_vars

\* GET /auth/session answered authenticated for one request and, after a
\* sign-out, unauthenticated for the same correctly signed cookie.
C15_Witness ==
  \E r, q \in Req :
    /\ Done(r) /\ Done(q)
    /\ req[r].route = "session" /\ req[q].route = "session"
    /\ req[r].cookie = SeedCookie /\ req[q].cookie = SeedCookie
    /\ req[r].resp.authenticated
    /\ ~req[q].resp.authenticated
    /\ Get(store, SessionKey("s_1"))[1].revokedAt # 0

Revoked(k) == k \in DOMAIN store /\ store[k].revokedAt # 0

SessionKeys == {k \in DOMAIN store : k[1] = "auth/sessions"}

\* C16: once a session record carries revokedAt it carries it for good,
\* and no request that presents the session's cookie is treated as
\* authenticated from then on.
C16_RevocationPermanent ==
  [][\A k \in SessionKeys :
       Revoked(k) =>
         /\ k \in DOMAIN store'
         /\ store'[k].revokedAt # 0
         /\ \A r \in Req :
              (req[r].cookie.parts = 2
                 /\ SessionKey(req[r].cookie.payloadB64.sessionId) = k
                 /\ ~req[r].session.authenticated)
                => ~req'[r].session.authenticated]_vars

\* POST /auth/logout revoked s_1, and a GET /auth/session that arrived after
\* it with the cookie of s_1 was answered.
C16_Witness ==
  \E r, q \in Req :
    /\ Done(r) /\ req[r].route = "logout"
    /\ DidOn(r, "put", SessionKey("s_1")) # {}
    /\ Done(q) /\ req[q].route = "session" /\ req[q].cookie = SeedCookie
    /\ r \in req[q].after
    /\ Revoked(SessionKey("s_1"))

\* The sign-out request r presented a cookie that verifies, for a session
\* whose record exists and was unexpired when requireSession read it.
LiveLogout(r) ==
  LET cookie == req[r].cookie
      k == SessionKey(cookie.payloadB64.sessionId)
  IN  /\ Done(r)
      /\ req[r].route = "logout"
      /\ cookie.parts = 2
      /\ ~Tampered(r)
      /\ cookie.payloadB64.expiresAt >= req[r].receivedAt
      /\ k \in DOMAIN store
      /\ store[k].expiresAt > req[r].receivedAt

\* C17: after POST /auth/logout is handled with a cookie that verifies, for
\* a session whose record exists and is unexpired, the record is stored
\* with revokedAt set, also when its accountId is null.
C17_LogoutRevokes ==
  \A r \in Req :
    LiveLogout(r) => Revoked(SessionKey(req[r].cookie.payloadB64.sessionId))

\* The GET /auth/confirm requests with token t that stored a session record,
\* and those whose response sets a session cookie.
SessionsCreated(t) ==
  {r \in Req : /\ req[r].route = "confirm"
               /\ req[r].token = t
               /\ \E i \in Did(r, "put") :
                    req[r].ops[i].key[1] = "auth/sessions"}

CookiesSet(t) ==
  {r \in Req : /\ req[r].route = "confirm"
               /\ req[r].token = t
               /\ req[r].resp.setCookie # <<>>}

\* C18: for every login token, over all GET /auth/confirm requests with
\* that token, concurrent ones included, at most one session record is
\* created and at most one response sets a session cookie.
C18_SingleUseToken ==
  \A r \in Req :
    req[r].route = "confirm" =>
      /\ Cardinality(SessionsCreated(req[r].token)) <= 1
      /\ Cardinality(CookiesSet(req[r].token)) <= 1

\* The token of request r has no record, or a record that is used or whose
\* expiresAt is earlier than now.
BadToken(r) ==
  LET obj == Get(store, TokenKey(sha256Hex(req[r].token))) IN
  \/ obj = None
  \/ obj[1].usedAt # 0
  \/ obj[1].expiresAt < clock

\* The request was redirected to the login error page, without a cookie and
\* without a put.
Refused(r) ==
  /\ Done(r)
  /\ req[r].resp = LoginError
  /\ req[r].resp.setCookie = <<>>
  /\ Puts(r) = {}

\* C19: GET /auth/confirm without a token, or with a token that is unknown,
\* used or past its expiresAt, is redirected to the login error page, sets
\* no cookie and puts nothing, so that no session is created and the token
\* record stays as it was; every other token, one confirmed exactly at its
\* expiresAt included, is accepted.
C19_ConfirmRefusals ==
  [][\A r \in Req :
       /\ (req[r].pc = "idle" /\ req'[r].route = "confirm"
             /\ ~Truthy(req'[r].token)) => (Refused(r))'
       /\ (req[r].pc = "cf_get" /\ req'[r].pc # "cf_get") =>
            IF BadToken(r)
              THEN (Refused(r))' /\ store' = store
              ELSE req'[r].pc = "cf_puttoken"]_vars

\* The token "new" was confirmed at its expiresAt instant and the response
\* set a cookie; the expired token "old", the used token "seed" or no token
\* was refused.
C19_Witness ==
  \E r, q \in Req :
    /\ Done(r) /\ req[r].route = "confirm" /\ req[r].token = "new"
    /\ req[r].now = store[TokenKey(sha256Hex("new"))].expiresAt
    /\ req[r].resp.setCookie # <<>>
    /\ Done(q) /\ req[q].route = "confirm"
    /\ req[q].token \in {"old", "seed", NULL}
    /\ Refused(q)

\* The accountId of the session record the cookie of request r names.
SessionAccount(r) ==
  LET obj == Get(store, SessionKey(req[r].cookie.payloadB64.sessionId)) IN
  IF obj = None THEN NULL ELSE obj[1].accountId

Stored(k) == k \notin DOMAIN store \/ store'[k] # store[k]

\* C20: the accountId a form route stores in a support thread, in a profile
\* page and in the directory entry of the page's slug is the accountId of
\* the verified session of the request that stores it, whatever accountId
\* field the client submitted; what is stored is a function of the session
\* alone.
C20_ClientIdentityUntrusted ==
  [][\A r \in Req :
       req'[r] # req[r] =>
         \A k \in DOMAIN store' :
           (Stored(k) /\ k[1] \in {"support", "va/pages", "va/directory"}) =>
             /\ ~Tampered(r)
             /\ SessionAccount(r) # NULL
             /\ k[1] \in {"support", "va/pages"} =>
                  store'[k].accountId = SessionAccount(r)
             /\ k[1] = "va/directory" =>
                  \A i \in DOMAIN store'[k].directory :
                    store'[k].directory[i].slug = req[r].slug =>
                      store'[k].directory[i].accountId = SessionAccount(r)]_vars

\* Under the session of pi_0 a form naming accountId pi_2 was published: the
\* page and its directory entry are stored, and the form kept the field.
C20_Witness ==
  \E r \in Req :
    /\ Done(r) /\ req[r].route = "publish"
    /\ req[r].cookie = SeedCookie
    /\ Field(req[r].input, "accountId") = "pi_2"
    /\ DidOn(r, "put", PageKey("zeta")) # {}
    /\ DidOn(r, "put", DirectoryKey) # {}
    /\ Field(store[PageKey("zeta")].form, "accountId") = "pi_2"

\* The keys of the submitted object that are neither allowed nor utm_ keys.
UnknownFields(r) ==
  {k \in DOMAIN req[r].input : k \notin supportAllowed /\ ~IsUtm(k)}

\* The support request r came with a live session and a JSON object.
AuthenticatedJson(r) ==
  /\ Done(r)
  /\ req[r].route = "support"
  /\ ~Tampered(r)
  /\ SessionAccount(r) # NULL
  /\ req[r].ctype = "application/json"
  /\ req[r].input # NotJson

\* C21: an authenticated support message whose object has a key that is
\* neither allowed nor prefixed utm_ is answered 400 naming such a key (the
\* first in key order), and the request has written no receipt and no
\* thread.
C21_UnknownFieldRejected ==
  \A r \in Req :
    (AuthenticatedJson(r) /\ UnknownFields(r) # {}) =>
      /\ req[r].resp.status = 400
      /\ \E k \in UnknownFields(r) :
           /\ req[r].resp.reason = "Unknown field: " \o k
           /\ \A j \in UnknownFields(r) : KeyRank(k) <= KeyRank(j)
      /\ Puts(r) = {}

\* A message with the two unknown keys accountId and zzz was refused, and a
\* message with a utm_ key was stored.
C21_Witness ==
  \E r, q \in Req :
    /\ AuthenticatedJson(r)
    /\ UnknownFields(r) = {"accountId", "zzz"}
    /\ req[r].resp.reason = "Unknown field: accountId"
    /\ AuthenticatedJson(q)
    /\ "utm_source" \in DOMAIN req[q].input
    /\ req[q].resp.status = 200
    /\ DidOn(q, "put", SupportKey(req[q].supportId)) # {}

\* The ten (method, path) pairs the worker serves.
ListedRoutes ==
  {<<"GET", "/health">>, <<"GET", "/support/status">>,
   <<"GET", "/directory">>, <<"POST", "/auth/login">>,
   <<"GET", "/auth/confirm">>, <<"GET", "/auth/session">>,
   <<"POST", "/auth/logout">>, <<"POST", "/forms/support/message">>,
   <<"POST", "/forms/va/publish">>, <<"POST", "/stripe/webhook">>}

\* Request r arrives in this step with a method and a path.
Arrives(r) == req[r].pc = "idle" /\ req'[r].pc # "idle" /\ req'[r].method # ""

Answered(r, status) ==
  /\ req'[r].pc = "done"
  /\ req'[r].resp.status = status
  /\ req'[r].ops = <<>>
  /\ store' = store

Directory ==
  IF Has(store, DirectoryKey) THEN store[DirectoryKey].directory ELSE <<>>

\* Strictly ascending slugs: sorted, and no slug twice.
DirectoryShape ==
  \A i, j \in DOMAIN Directory :
    i < j => SlugRank(Directory[i].slug) < SlugRank(Directory[j].slug)

\* Request r completes its publish in this step.
Publishes(r) ==
  /\ req[r].pc = "vp_dirput"
  /\ req'[r].pc = "done"
  /\ req'[r].resp.status = 200

\* C23: from a store without an index, the stored directory index always
\* lists its entries in ascending slug order with at most one entry per
\* slug, and when a publish of slug s completes the entry of s carries that
\* publish's accountId and updatedAt.
C23_DirectoryShape ==
  /\ []DirectoryShape
  /\ [][\A r \in Req :
          Publishes(r) =>
            \E i \in DOMAIN Directory' :
              Directory'[i] = [accountId |-> SessionAccount(r),
                               slug |-> req[r].input.slug,
                               updatedAt |-> req[r].now]]_vars

\* zeta was published, then alpha: the index lists alpha before zeta.
C23_Witness ==
  \E r, q \in Req :
    /\ Done(r) /\ Done(q)
    /\ req[r].slug = "zeta" /\ req[q].slug = "alpha"
    /\ r \in req[q].after
    /\ Len(Directory) = 2
    /\ Directory[1].slug = "alpha"
    /\ Directory[1].accountId = req[q].accountId

\* The key of the canonical object request r writes.
CanonicalKey(r) ==
  IF req[r].route = "support" THEN SupportKey(req[r].supportId)
  ELSE AccountKey(req[r].accountId)

\* Request r is in the catch block of its projection attempt: the canonical
\* puts are done and the projection has failed.
ProjectionFailed(r) == req[r].pc \in {"cs_failput", "sm_failput"}

\* C24: when the projection fails after the canonical put, the request is
\* answered 200 with ok true and the projection reported as attempted and
\* failed, and the canonical object is stored again with the error under
\* clickup and every other field as the request wrote it before.
C24_ProjectionContained ==
  [][\A r \in Req :
       (ProjectionFailed(r) /\ req'[r] # req[r]) =>
         /\ req'[r].pc = "done"
         /\ req'[r].resp.status = 200
         /\ req'[r].resp.ok
         /\ req'[r].resp.projection = "failed"
         /\ Has(store', CanonicalKey(r))
         /\ store'[CanonicalKey(r)].clickup.error = req[r].projError
         /\ \A f \in DOMAIN req[r].next[1] \ {"clickup"} :
              store'[CanonicalKey(r)][f] = req[r].next[1][f]]_vars

ClientError(r) ==
  Done(r) /\ req[r].resp.status >= 400 /\ req[r].resp.status <= 499

\* C25: on every route, a request answered with a 4xx status has put
\* nothing: the answer was produced before the receipt write.
C25_ErrorsWriteNothing ==
  \A r \in Req : ClientError(r) => Puts(r) = {}

\* Every 4xx status the worker produces was answered, next to requests that
\* wrote.
C25_Witness ==
  /\ \E r \in Req : ClientError(r) /\ req[r].route \in {"webhook", "support"}
  /\ \E r \in Req : Done(r) /\ Puts(r) # {}

ReadModels == {"health", "status", "directory", "session"}

\* C26: a step of GET /health, GET /directory, GET /support/status or GET
\* /auth/session leaves the store as it was, calls no sink and logs no put.
C26_ReadModelsReadOnly ==
  [][\A r \in Req :
       (req'[r] # req[r] /\ req'[r].route \in ReadModels) =>
         /\ store' = store
         /\ clickup' = clickup
         /\ ~Wrote(r)']_vars

\* A stored thread and the directory index were read and a session was
\* reported authenticated.
C26_Witness ==
  /\ \E r \in Req : Done(r) /\ req[r].route = "status"
                    /\ req[r].resp.status = 200 /\ req[r].resp.data # <<>>
  /\ \E r \in Req : Done(r) /\ req[r].route = "directory"
                    /\ req[r].resp.data # <<>>
  /\ \E r \in Req : Done(r) /\ req[r].route = "session"
                    /\ req[r].resp.authenticated

\* The requests that asked the sink to create a task for the object at key.
Creators(key) ==
  {r \in Req : /\ req[r].route \in {"webhook", "support"}
               /\ req[r].accountId # "" \/ req[r].supportId # ""
               /\ CanonicalKey(r) = key
               /\ DidOn(r, "project", <<"clickup", "create">>) # {}}

\* C27: for every account and every support thread, at most one create-task
\* call is made to the sink over all the requests handled for it.
C27_OneTaskPerObject ==
  \A r \in Req :
    DidOn(r, "project", <<"clickup", "create">>) # {} =>
      Cardinality(Creators(CanonicalKey(r))) <= 1

\* C28: the put of a confirmation or charge handler stores the merge of its
\* event into the account the request read, whatever the store holds by
\* then, and the request is answered 200 with ok true and the accountId; so
\* two overlapping requests for one account can both succeed while the final
\* account holds the merge of only one of them.
C28_LastWriterWins ==
  [][\A r \in Req :
       (req[r].pc \in {"pi_put", "ch_put"} /\ req'[r].pc = "done") =>
         /\ store'[AccountKey(req[r].accountId)] =
              IF req[r].pc = "ch_put"
                THEN ChargeNextAccount(req[r].account[1], req[r].evt)
                ELSE PaymentIntentNextAccount(req[r].account[1], req[r].evt)
         /\ req'[r].resp.status = 200
         /\ req'[r].resp.ok
         /\ req'[r].resp.accountId = req[r].accountId]_vars

\* A confirmation and a charge of account pi_1 overlapped, both were
\* answered 200 with ok true and the accountId, and the stored account is
\* the confirmation's merge alone: the charge's receipt URL is missing.
C28_Witness ==
  \E r1, r2 \in Req :
    /\ Done(r1) /\ Done(r2)
    /\ req[r1].body = "b_ch1" /\ req[r2].body = "b_pi1"
    /\ r1 \notin req[r2].after /\ r2 \notin req[r1].after
    /\ \A r \in {r1, r2} : /\ req[r].resp.status = 200
                           /\ req[r].resp.ok
                           /\ ~req[r].resp.deduped
                           /\ req[r].resp.accountId = "pi_1"
                           /\ DidOn(r, "put", AccountKey("pi_1")) # {}
    /\ store[AccountKey("pi_1")].stripe.receiptUrl # "https://r/1"
    /\ store[AccountKey("pi_1")].stripe.eventId = "evt_pi1"

\* An account without its projection state.
Canonical(account) == [account EXCEPT !.clickup = NoClickup]

\* r is about to put the account it merged from the account that is stored
\* now, and another request has already applied the same event to it.
Replays(r) ==
  /\ UpsertsStored(r)
  /\ req[r].account = Get(store, AccountKey(req[r].accountId))
  /\ \E q \in Req \ {r} :
       /\ req[q].evt.id = req[r].evt.id
       /\ DidOn(q, "put", AccountKey(req[r].accountId)) # {}

\* C29: applying an event's canonical mutation to an account it was already
\* applied to leaves the account as stored, projection state aside: a no-op
\* right after the first application, and no field written by a later event
\* is reverted.
C29_ReplayNoOp ==
  [][\A r \in Req :
       (Replays(r) /\ req'[r].pc # req[r].pc) =>
         Canonical(store'[AccountKey(req[r].accountId)])
           = Canonical(store[AccountKey(req[r].accountId)])]_vars

\* r was answered 500 with `error` at its first step, before any get or put.
FailedClosed(r, error) ==
  /\ Done(r)
  /\ req[r].resp.status = 500
  /\ req[r].resp.error = error
  /\ req[r].ops = <<>>

\* C30: while the bucket binding or the signing key is missing every
\* request, whatever its method and path, is answered 500 with the missing
\* name before any routing, method check or store access; a webhook request
\* that carries a signature header while the webhook secret is missing is
\* answered 500 whatever its body; the store is left as it was.
C30_ConfigFailsClosed ==
  /\ \A r \in Req :
       req[r].pc # "idle" =>
         /\ ~env.R2_VIRTUAL_LAUNCH =>
              FailedClosed(r, "Missing R2_VIRTUAL_LAUNCH binding")
         /\ (env.R2_VIRTUAL_LAUNCH /\ env.AUTH_SIGNING_KEY = "") =>
              FailedClosed(r, "Missing AUTH_SIGNING_KEY")
         /\ (/\ BindingError = None
             /\ env.STRIPE_WEBHOOK_SECRET = ""
             /\ req[r].route = "webhook"
             /\ req[r].sig # <<>>) =>
              FailedClosed(r, "Missing STRIPE_WEBHOOK_SECRET")
  /\ BindingError # None => store = SeededStore
  /\ env.STRIPE_WEBHOOK_SECRET = "" =>
       \A r \in Req : req[r].route = "webhook" => Puts(r) = {}

\* Without the signing key a request with a method outside the allowed ones
\* and a signed webhook delivery were both answered 500.
C30_Witness ==
  /\ env.R2_VIRTUAL_LAUNCH /\ env.AUTH_SIGNING_KEY = ""
  /\ \E r1, r2 \in Req :
       /\ FailedClosed(r1, "Missing AUTH_SIGNING_KEY")
       /\ req[r1].method = "PUT"
       /\ FailedClosed(r2, "Missing AUTH_SIGNING_KEY")
       /\ req[r2].route = "webhook" /\ req[r2].sig # <<>>

\* The event of r passed verification and is not applied to any account:
\* its type is not one of the three payment types, or it is a completion
\* event without a payment intent id.
NotApplied(r) ==
  /\ req[r].route = "webhook"
  /\ Gated(r)
  /\ \/ req[r].evt.type \notin allowedTypes
     \/ /\ req[r].evt.type = "checkout.session.completed"
        /\ ~Truthy(req[r].evt.payment_intent)

\* C31: a verified event that is not canonically applied is answered 200
\* with ok true, its receipt is stored, and the request has put no key other
\* than the receipt key.
C31_ReceiptOnly ==
  \A r \in Req :
    (NotApplied(r) /\ req[r].pc \notin {"idle", "wh_gate", "wh_put"}) =>
      /\ Done(r)
      /\ req[r].resp.status = 200
      /\ req[r].resp.ok
      /\ Has(store, ReceiptKey("stripe", req[r].evt.id))
      /\ \A i \in Puts(r) :
           req[r].ops[i] = Op("put", ReceiptKey("stripe", req[r].evt.id))
      /\ ~req[r].resp.deduped => Puts(r) # {}

\* An event of an ignored type and a completion event without a payment
\* intent were both stored as receipts and answered.
C31_Witness ==
  \E r1, r2 \in Req :
    /\ Done(r1) /\ req[r1].body = "b_inv" /\ ~req[r1].resp.deduped
    /\ Done(r2) /\ req[r2].body = "b_cs0" /\ ~req[r2].resp.deduped
    /\ NotApplied(r1) /\ NotApplied(r2)
    /\ Has(store, ReceiptKey("stripe", "evt_inv"))
    /\ Has(store, ReceiptKey("stripe", "evt_cs0"))
    /\ ~Has(store, AccountKey("cs_0"))

\* The support threads in the store.
Threads == {k \in DOMAIN store : k[1] = "support"}

\* C32: with one request at a time and event ids of distinct digests, every
\* stored support thread holds exactly one message and has the status
\* "open / new".
C32_OneMessagePerThread ==
  \A k \in Threads :
    /\ Len(store[k].messages) = 1
    /\ store[k].status = "open / new"

\* Event f_1 was submitted and stored, submitted again and deduped, and
\* event f_2 was stored in a thread of its own.
C32_Witness ==
  \E r1, r2, r3 \in Req :
    /\ Done(r1) /\ Done(r2) /\ Done(r3)
    /\ r1 \in req[r2].after /\ r2 \in req[r3].after
    /\ req[r1].eventId = "f_1" /\ ~req[r1].resp.deduped
    /\ req[r2].eventId = "f_1" /\ req[r2].resp.deduped
    /\ req[r3].eventId = "f_2" /\ req[r3].resp.status = 200
    /\ {SupportKey(supportIdFromEventId("f_1")),
        SupportKey(supportIdFromEventId("f_2"))} \subseteq Threads

\* r is a delivery of a completion event that carries a payment intent id
\* and was answered 200.
CompletionAnswered(r) ==
  /\ Done(r)
  /\ req[r].route = "webhook"
  /\ req[r].evt.type = "checkout.session.completed"
  /\ Truthy(req[r].evt.payment_intent)
  /\ req[r].resp.status = 200

\* C33: once a delivery of a completion event with a payment intent id was
\* answered 200, deduped or not, the account of the event is stored with
\* subscription.active true.
C33_SuccessImpliesAccount ==
  \A r \in Req :
    CompletionAnswered(r) =>
      /\ Has(store, AccountKey(req[r].evt.payment_intent))
      /\ store[AccountKey(req[r].evt.payment_intent)].subscription.active

\* No publish request is between its first step and its answer.
NoPublishInFlight ==
  \A r \in Req : req[r].route = "publish" => req[r].pc \in {"idle", "done"}

\* The profile pages in the store.
Pages == {k \in DOMAIN store : k[1] = PageKey("")[1]}

\* The directory entries of slug.
EntriesOf(slug) == {i \in DOMAIN Directory : Directory[i].slug = slug}

\* C34: whenever no publish request is in flight, every slug with a stored
\* profile page has an entry in the directory index.
C34_DirectoryComplete ==
  NoPublishInFlight => \A k \in Pages : EntriesOf(store[k].slug) # {}

\* C35: whenever no publish request is in flight, the directory entry of
\* every slug carries the accountId and the updatedAt of the slug's profile
\* page.
C35_DirectoryAgrees ==
  NoPublishInFlight =>
    \A k \in Pages :
      \A i \in EntriesOf(store[k].slug) :
        /\ Directory[i].accountId = store[k].accountId
        /\ Directory[i].updatedAt = store[k].updatedAt

\* The correlation index entries in the store.
IndexEntries == {k \in DOMAIN store : k[1] = IndexKey("")[1]}

\* C36: every stored correlation index entry names an account that is
\* stored, and no confirmation or charge handler has answered "Account not
\* found for correlated accountId".
C36_IndexNeverDangles ==
  /\ \A k \in IndexEntries : Has(store, AccountKey(store[k].accountId))
  /\ \A r \in Req :
       req[r].resp.note # "Account not found for correlated accountId"

\* A confirmation event found the index entry of its payment intent and the
\* account it names.
C36_Witness ==
  \E r \in Req :
    /\ Done(r)
    /\ req[r].evt.type = "payment_intent.succeeded"
    /\ DidOn(r, "put", AccountKey("pi_1")) # {}
    /\ IndexKey("pi_1") \in IndexEntries
    /\ store[IndexKey("pi_1")].accountId = "pi_1"

\* r is an answered POST /auth/login with a well-formed email.
LoggedIn(r) ==
  /\ Done(r)
  /\ req[r].route = "login"
  /\ req[r].email # ""

\* C37: POST /auth/login with a well-formed email is answered 200 with ok
\* true and nothing else, and puts exactly one object, a login-token record,
\* whether or not the email has an index entry.
C37_LoginRevealsNothing ==
  \A r \in Req :
    LoggedIn(r) =>
      /\ req[r].resp = OkResp
      /\ Cardinality(Puts(r)) = 1
      /\ \A i \in Puts(r) :
           req[r].ops[i] = Op("put", TokenKey(sha256Hex(req[r].token)))

\* A login with an email that has no index entry was answered like any
\* other, and its token record carries no account.
C37_Witness ==
  \E r \in Req :
    /\ LoggedIn(r)
    /\ ~Has(store, EmailIndexKey(req[r].email))
    /\ req[r].resp = OkResp
    /\ Has(store, TokenKey(sha256Hex(req[r].token)))
    /\ store[TokenKey(sha256Hex(req[r].token))].accountId = NULL

\* The cookie of request r names a stored session record without an account.
PresentsUnbound(r) ==
  /\ req[r].route \in {"session", "support", "publish"}
  /\ req[r].cookie.parts = 2
  /\ Has(store, SessionKey(req[r].cookie.payloadB64.sessionId))
  /\ SessionAccount(r) = NULL

\* Request r stores the session record of a confirmation in this step.
CreatesSession(r) == req[r].pc = "cf_putsession" /\ req'[r].pc = "done"

\* C38: a session record carries the accountId of the token it was
\* confirmed with and keeps it; a request that presents a session without an
\* account is never treated as authenticated, GET /auth/session reports
\* authenticated false and a form route answers 401 and puts nothing,
\* whatever the email index holds by then.
C38_SessionBoundAtLogin ==
  /\ [](\A r \in Req :
          PresentsUnbound(r) =>
            /\ ~req[r].session.authenticated
            /\ ~req[r].resp.authenticated
            /\ Puts(r) = {}
            /\ (Done(r) /\ req[r].route # "session") =>
                 req[r].resp.status = 401)
  /\ [][\A k \in SessionKeys :
          /\ k \in DOMAIN store'
          /\ store'[k].accountId = store[k].accountId]_vars
  /\ [][\A r \in Req :
          CreatesSession(r) =>
            store'[SessionKey("sid_" \o ToString(r))].accountId
              = store[TokenKey(sha256Hex(req[r].token))].accountId]_vars

\* The completion event stored the index entry of b@x.io, the token issued
\* before it was confirmed, and the session that resulted was refused by
\* the support form.
C38_Witness ==
  \E r1, r3 \in Req :
    /\ Done(r1) /\ Done(r3)
    /\ req[r1].route = "confirm" /\ req[r1].token = "anon"
    /\ req[r1].resp.setCookie # <<>>
    /\ Has(store, EmailIndexKey("b@x.io"))
    /\ store[EmailIndexKey("b@x.io")].accountId = "pi_1"
    /\ req[r3].route = "support" /\ req[r3].cookie = req[r1].resp.setCookie[1]
    /\ PresentsUnbound(r3)
    /\ req[r3].resp.status = 401

\* C39: whenever POST /forms/support/message has answered 200 with a
\* supportId, deduped or not, the support thread of that supportId is
\* stored.
C39_SupportIdResolves ==
  \A r \in Req :
    (/\ Done(r)
     /\ req[r].route = "support"
     /\ req[r].resp.status = 200
     /\ req[r].resp.supportId # "") =>
      Has(store, SupportKey(req[r].resp.supportId))

\* Delivery r put the receipt of its event.
WroteReceipt(r) ==
  /\ req[r].route = "webhook"
  /\ Gated(r)
  /\ DidOn(r, "put", ReceiptKey("stripe", req[r].evt.id)) # {}

\* Some delivery was answered 200.
Accepted == \E r \in Req : Done(r) /\ req[r].resp.status = 200

====
